---- MODULE Spec2Model ----
(***************************************************************************)
(* Orbital Music Box: the rotating-disc step sequencer.                    *)
(*                                                                         *)
(* The model covers the playhead scheduler (App.tsx: animate, the          *)
(* play/pause effect, the track toggles), the note placement handlers      *)
(* (App.tsx: handleMouseDown / handleMouseMove / handleMouseUp) and the    *)
(* voice manager of the audio engine (useAudioEngine: startSustainedNote,  *)
(* stopSustainedNote, playNote, playShortNote, playPreviewNote).           *)
(*                                                                         *)
(* Units.  Angles are integers counting tenths of a degree, so that the    *)
(* 22.5 degree grid of track 2 and the 359.9 degree cap of a full-circle   *)
(* arc are exact.  The rotation speed counts half seconds per revolution   *)
(* (the slider runs from 2 s to 20 s in steps of 0.5 s).  Gains count      *)
(* ten-thousandths (0.6 is 6000, the fade-out floor 0.0001 is 1).  Wall    *)
(* clock time counts milliseconds, as Date.now() does.                     *)
(***************************************************************************)
EXTENDS Integers, Sequences, FiniteSets, TLC

VARIABLES
    build,                 \* which App of the repository runs: "drag" (src/App.tsx) or "click"
    isSustainMode,         \* App of src/unnamed/part_005: isSustainMode
    notes,                 \* App: the note list (useState<Note[]>), in array order
    nextId,                \* the next fresh note id (ids are `note-${Date.now()}-${Math.random()}`)
    isPlaying,             \* App: isPlaying
    rotationSpeed,         \* App: rotationSpeed, in half seconds per revolution
    rotation,              \* App: rotation, in tenths of a degree
    activeTracks,          \* App: activeTracks, one flag per track
    dragState,             \* App: dragState (NoDrag for null)
    playingSustainedNotes, \* App: playingSustainedNotesRef.current
    lastPlayedAge,         \* App: Date.now() - lastPlayedRef.current.get(id), saturated
    isRecording,           \* engine: isRecording
    audioCtx,              \* engine: audioCtxRef.current and its state
    activeSources,         \* engine: activeSourcesRef.current, note id -> voice
    previewNode,           \* engine: previewNodeRef.current (0 for null)
    voices,                \* the oscillator/gain pairs of the audio session
    calls,                 \* the engine calls made by the handler that ran last
    engine,                \* which useAudioEngine of the repository the App imports
    effectsChain,          \* engine: effectsChainRef.current, the graph and its parameters
    recorder,              \* engine: mediaRecorderRef.current and the promises of stopRecording
    composition,           \* ai/gemini.ts: the model's response and what generateComposition made of it
    frameDelta,            \* milliseconds between the frame animate ran for last and the next event
    animationFrame         \* App: the callbacks requestAnimationFrame holds, and animationFrameRef

vars == <<build, isSustainMode, notes, nextId, isPlaying, rotationSpeed, rotation, activeTracks, dragState,
          playingSustainedNotes, lastPlayedAge, isRecording, audioCtx, activeSources,
          previewNode, voices, calls, engine, effectsChain, recorder, composition,
          frameDelta, animationFrame>>

appVars == <<engine, composition, frameDelta, animationFrame, build, isSustainMode, notes, nextId, isPlaying, rotationSpeed, rotation, activeTracks, dragState,
             playingSustainedNotes, lastPlayedAge>>

(***************************************************************************)
(* Program constants.                                                      *)
(***************************************************************************)
FULL == 3600
PlayheadPosition == 900
PlayheadTop == 0
DEBOUNCE == 250
TRACK_COUNT == 4
TRACK_SNAP_ANGLES == <<100, 150, 225, 300>>
\* Math.atan2(TRACK_WIDTH / 2, TRACK_RADII[track]) * 180 / PI is 4.899, 6.340, 8.973 and
\* 15.255 degrees; an angle in tenths is below it iff it is below these.
NOTE_ANGULAR_RADIUS == <<49, 64, 90, 153>>
FULL_CIRCLE_CAP == 3599
SUSTAIN_GAIN == 6000
FADE_FLOOR == 1

\* NOTE_COLORS[i].freq, in hundredths of a hertz; a note's color is its index here.
NOTE_FREQ == <<26163, 29366, 32963, 34923, 39200, 44000, 49388>>

\* activeColor: the model places notes of the colour the App starts with.
activeColor == 1

Tracks == 0 .. (TRACK_COUNT - 1)
SnapAngle(track) == TRACK_SNAP_ANGLES[track + 1]

(***************************************************************************)
(* Bounds of the model.                                                    *)
(***************************************************************************)
MaxNotes == 2
MaxIds == 3
MaxVoices == 3
MaxTurns == 2
MaxBuilds == 2
MaxEvents == 3
MaxImpulses == 3
MaxPending == 2
MaxBatch == 3

NoteIds == 1 .. MaxIds
Handles == 1 .. MaxVoices

(***************************************************************************)
(* JavaScript arithmetic.                                                  *)
(***************************************************************************)
\* a % b of JavaScript: the remainder has the sign of the dividend.
JsMod(a, b) == IF a >= 0 THEN a % b ELSE 0 - ((0 - a) % b)

Abs(x) == IF x < 0 THEN 0 - x ELSE x

Min(a, b) == IF a < b THEN a ELSE b

\* Math.round(num / den) for den > 0: the nearest integer, halves rounded up.
JsRound(num, den) == (2 * num + den) \div (2 * den)

\* Math.floor(num / den) for den > 0.
JsFloor(num, den) == num \div den

(***************************************************************************)
(* The audio engine (useAudioEngine).  An engine state E bundles the refs  *)
(* of the hook: ctx (audioCtxRef and the context's state), src             *)
(* (activeSourcesRef), prev (previewNodeRef), v (the voices of the         *)
(* session), log (the calls made so far by the running handler) and ok     *)
(* (FALSE once a voice was needed beyond MaxVoices).  A voice is an        *)
(* oscillator with its gain node: value is the gain set at the call that   *)
(* touched it last, target the value its scheduled ramp ends at, stop      *)
(* whether the oscillator's stop is scheduled.                             *)
(***************************************************************************)
CtxStates == {"null", "suspended", "running"}

FreeVoice == [kind |-> "free", note |-> 0, value |-> 0, target |-> 0, stop |-> "no"]

EmptyMap == [i \in {} |-> 0]

\* The three hooks of the repository: "layered" is src/hooks/useAudioEngine.ts (the
\* layered pluck, with a bitcrusher), "oneshot" is src/src/hooks/useAudioEngine.ts
\* (playNote, with a phaser), "sustained" is src/unnamed/part_003.
Engines == {"layered", "oneshot", "sustained"}

\* The connections made by setupAudioGraph, and by getAudioContext from the output.
ChainEdgesLayered ==
    { <<"input", "reverb">>, <<"reverb", "reverbWet">>, <<"reverbWet", "output">>,
      <<"input", "delay">>, <<"delay", "delayWet">>, <<"delayWet", "output">>,
      <<"delay", "delayFeedback">>, <<"delayFeedback", "delay">>,
      <<"input", "flanger">>, <<"flanger", "flangerWet">>, <<"flangerWet", "output">>,
      <<"flanger", "flangerFeedback">>, <<"flangerFeedback", "flanger">>,
      <<"flangerLFO", "flangerLFOGain">>, <<"flangerLFOGain", "flanger.delayTime">>,
      <<"input", "bitcrusher">>, <<"bitcrusher", "bitcrusherWet">>,
      <<"bitcrusherWet", "output">>,
      <<"input", "distortion">>, <<"distortion", "distortionTone">>,
      <<"distortionTone", "distortionOutput">>, <<"distortionOutput", "distortionWet">>,
      <<"distortionWet", "output">>,
      <<"input", "dry">>, <<"dry", "output">>,
      <<"output", "destination">>, <<"output", "streamDestination">> }

\* The six all-pass stages of the phaser are one node here.
ChainEdgesPhaser ==
    { <<"input", "reverb">>, <<"reverb", "reverbWet">>, <<"reverbWet", "output">>,
      <<"input", "delay">>, <<"delay", "delayWet">>, <<"delayWet", "output">>,
      <<"delay", "delayFeedback">>, <<"delayFeedback", "delay">>,
      <<"input", "distortion">>, <<"distortion", "distortionWet">>,
      <<"distortionWet", "output">>,
      <<"phaserLFO", "phaserLFOGain">>, <<"phaserLFOGain", "phaser.frequency">>,
      <<"input", "phaser">>, <<"phaser", "phaserWet">>, <<"phaserWet", "output">>,
      <<"flangerLFO", "flangerLFOGain">>, <<"flangerLFOGain", "flanger.delayTime">>,
      <<"input", "flanger">>, <<"flanger", "flangerFeedback">>,
      <<"flangerFeedback", "flanger">>, <<"flanger", "flangerWet">>,
      <<"flangerWet", "output">>,
      <<"input", "dry">>, <<"dry", "output">>,
      <<"output", "destination">>, <<"output", "streamDestination">> }

\* An audio parameter: the value it holds once every scheduled ramp has ended, and
\* the number of automation events scheduled on it that still lie ahead.
Param(value) == [target |-> value, events |-> 0]

\* The parameters updateEffects touches, and the dry gain, as setupAudioGraph leaves
\* them: a gain is 1, a delay time 0, an oscillator 440 Hz, a filter 350 Hz unless set.
ChainParamsLayered ==
    [reverbWet |-> Param(10000), delayWet |-> Param(10000), delayTime |-> Param(0),
     delayFeedback |-> Param(10000), flangerWet |-> Param(10000),
     flangerDelay |-> Param(0), flangerRate |-> Param(4400000),
     flangerDepth |-> Param(10000), flangerFeedback |-> Param(10000),
     bitcrusherWet |-> Param(10000), distortionWet |-> Param(10000),
     distortionTone |-> Param(3500000), distortionOutput |-> Param(10000),
     dry |-> Param(10000)]

ChainParamsPhaser ==
    [reverbWet |-> Param(0), delayTime |-> Param(5000), delayWet |-> Param(0),
     delayFeedback |-> Param(4000), distortionWet |-> Param(0), phaserWet |-> Param(0),
     phaserRate |-> Param(5000), phaserDepth |-> Param(8000000),
     flangerDelay |-> Param(50), flangerWet |-> Param(0), flangerRate |-> Param(2500),
     flangerDepth |-> Param(50), dry |-> Param(10000)]

\* effectsChainRef before the first build.  built counts the runs of setupAudioGraph's
\* body, impulse the impulse responses generated so far (each one is random, so a
\* new one differs from every earlier one); a curve is named by its arguments;
\* applied is effectsRef or prevEffectsRef, empty for null; scheduled tells whether
\* the timelines of the graph's parameters hold an automation event.
NoChain ==
    [built |-> 0, isSetup |-> FALSE, edges |-> {}, lfos |-> {}, params |-> EmptyMap,
     impulse |-> 0, distortionCurve |-> <<"none", 0>>, bitcrusherCurve |-> 0,
     applied |-> <<>>, scheduled |-> FALSE]

\* mediaRecorderRef before the first capture.  ref is the state of the recorder the
\* ref holds, stopping counts the promises of stopRecording that wait for a stop
\* event, settled and url tell how the promise that settled last did so (none has
\* since the last capture started).  lost counts the recorders that were still
\* recording when the ref was given another one: nothing holds them any more and
\* nothing stops them.  pending holds, for every run of handleRecord that waits at
\* `await resumeAudio()`, the isRecording its closure saw.
NoRecorder ==
    [ref |-> "none", stopping |-> 0, settled |-> "none", url |-> "none",
     lost |-> 0, pending |-> <<>>]

Engine == [ctx |-> audioCtx, src |-> activeSources, prev |-> previewNode,
           v |-> voices, log |-> <<>>, ok |-> TRUE,
           fx |-> effectsChain, rec |-> recorder, isRec |-> isRecording]

FreeHandles(E) == {h \in Handles : E.v[h].kind = "free"}

\* The lowest unused voice slot: a node the session creates is a new object.
NewHandle(E) == CHOOSE h \in FreeHandles(E) : \A g \in FreeHandles(E) : h <= g

\* A call and whether it returned at its guard without doing anything.
Logged(E, op, id, early) ==
    [E EXCEPT !.log = Append(@, [op |-> op, id |-> id, early |-> early])]

\* A voice whose last gain node is connected to the destination as well.
CreateVoiceBypassing(E, voice) ==
    IF FreeHandles(E) = {}
    THEN [E EXCEPT !.ok = FALSE]
    ELSE [E EXCEPT !.v[NewHandle(E)] = [out |-> {"input", "destination"}] @@ voice]

\* createOscillator + createGain + connect(effectsInput) + start: one voice; out is
\* the set of nodes its last gain node is connected to.
CreateVoice(E, voice) ==
    IF FreeHandles(E) = {}
    THEN [E EXCEPT !.ok = FALSE]
    ELSE [E EXCEPT !.v[NewHandle(E)] = [out |-> {"input"}] @@ voice]

\* The body of setupAudioGraph, and the two connections getAudioContext adds.
BuildChain(fx) ==
    [fx EXCEPT !.built = Min(@ + 1, MaxBuilds),
               !.isSetup = TRUE,
               !.edges = IF engine = "layered" THEN ChainEdgesLayered ELSE ChainEdgesPhaser,
               !.lfos = IF engine = "layered" THEN {"flangerLFO"}
                                              ELSE {"phaserLFO", "flangerLFO"},
               !.params = IF engine = "layered" THEN ChainParamsLayered
                                                ELSE ChainParamsPhaser,
               !.impulse = @ + 1,
               !.distortionCurve = IF engine = "layered" THEN <<"none", 0>>
                                                         ELSE <<"hard", 100>>,
               !.scheduled = FALSE]

\* setupAudioGraph: the hook with the bitcrusher returns at once when isSetup is set;
\* the other two have no such flag.
SetupAudioGraph(fx) ==
    IF engine = "layered" /\ fx.isSetup THEN fx ELSE BuildChain(fx)

GetAudioContextAlways(E, made) ==
    IF made = "null"
    THEN Logged(E, "console.error", 0, FALSE)
    ELSE [E EXCEPT !.ctx = made, !.fx = SetupAudioGraph(@)]

\* getAudioContext: builds the session on first use; `made` is what the
\* constructor of AudioContext yields, "null" when it throws: the catch logs the
\* failure with console.error and the ref stays empty.
GetAudioContext(E, made) ==
    IF E.ctx # "null"
    THEN E
    ELSE IF made = "null"
         THEN Logged(E, "console.error", 0, FALSE)
         ELSE [E EXCEPT !.ctx = made, !.fx = SetupAudioGraph(@)]

\* resumeAudio: getAudioContext, then resume() of a suspended context; `resumed`
\* says whether resume() resolved (a rejection is caught and logged).
ResumeAudio(E, made, resumed) ==
    LET E1 == GetAudioContext(E, made)
    IN  IF E1.ctx = "suspended" /\ resumed THEN [E1 EXCEPT !.ctx = "running"] ELSE E1

SustainedVoice(noteId) ==
    [kind |-> "sustained", note |-> noteId, value |-> 0, target |-> SUSTAIN_GAIN,
     stop |-> "no"]

StartSustainedNoteNoGuard(E, noteId) ==
    IF E.ctx # "running"
    THEN Logged(E, "startSustainedNote", noteId, TRUE)
    ELSE LET h == NewHandle(E)
             E1 == CreateVoice(Logged(E, "startSustainedNote", noteId, FALSE),
                               SustainedVoice(noteId))
         IN  IF E1.ok THEN [E1 EXCEPT !.src = (noteId :> h) @@ @] ELSE E1

StartSustainedNote(E, noteId) ==
    IF E.ctx # "running" \/ noteId \in DOMAIN E.src
    THEN Logged(E, "startSustainedNote", noteId, TRUE)
    ELSE LET h == NewHandle(E)
             E1 == CreateVoice(Logged(E, "startSustainedNote", noteId, FALSE),
                               SustainedVoice(noteId))
         IN  IF E1.ok THEN [E1 EXCEPT !.src = (noteId :> h) @@ @] ELSE E1

Without(f, k) == [i \in (DOMAIN f) \ {k} |-> f[i]]

StopSustainedNoteKeepEntry(E, noteId) ==
    IF E.ctx # "null" /\ noteId \in DOMAIN E.src
    THEN [Logged(E, "stopSustainedNote", noteId, FALSE)
             EXCEPT !.v[E.src[noteId]].target = FADE_FLOOR,
                    !.v[E.src[noteId]].stop = "scheduled"]
    ELSE Logged(E, "stopSustainedNote", noteId, TRUE)

StopSustainedNoteNoStop(E, noteId) ==
    IF E.ctx # "null" /\ noteId \in DOMAIN E.src
    THEN [Logged(E, "stopSustainedNote", noteId, FALSE)
             EXCEPT !.v[E.src[noteId]].target = FADE_FLOOR,
                    !.src = Without(E.src, noteId)]
    ELSE Logged(E, "stopSustainedNote", noteId, TRUE)

\* stopSustainedNote: the gain is held at its value and ramped to the floor, the
\* oscillator's stop is scheduled at the ramp's end, the entry is deleted.
StopSustainedNote(E, noteId) ==
    IF E.ctx # "null" /\ noteId \in DOMAIN E.src
    THEN [Logged(E, "stopSustainedNote", noteId, FALSE)
             EXCEPT !.v[E.src[noteId]].target = FADE_FLOOR,
                    !.v[E.src[noteId]].stop = "scheduled",
                    !.src = Without(E.src, noteId)]
    ELSE Logged(E, "stopSustainedNote", noteId, TRUE)

\* playNote of src/src/hooks/useAudioEngine.ts: a sine with an exponential decay,
\* its stop scheduled at creation.  noteId names the caller's note in the log.
\* sources gives, for every source the trigger started, the milliseconds after
\* `now` at which its stop is scheduled, 0 for a source started without a stop.
PlayNote(E0, noteId, made) ==
    LET E == GetAudioContext(E0, made)
    IN  IF E.ctx # "running"
        THEN Logged(E, "playNote", noteId, TRUE)
        ELSE CreateVoice(Logged(E, "playNote", noteId, FALSE),
                         [kind |-> "oneshot", note |-> 0, value |-> 5000,
                          target |-> 10, stop |-> "scheduled",
                          sources |-> [oscillator |-> 500]])

\* currentEffects && currentEffects.vibrato.on
VibratoOn(E) == E.fx.applied # <<>> /\ E.fx.applied[1].vibrato.on

\* playShortNote starting its vibrato LFO without a stop.
PlayShortNoteLfoRunning(E0, made) ==
    LET E == GetAudioContext(E0, made)
    IN  IF E.ctx = "null"
        THEN Logged(E, "playShortNote", 0, TRUE)
        ELSE CreateVoice(Logged(E, "playShortNote", 0, FALSE),
                         [kind |-> "oneshot", note |-> 0, value |-> 0,
                          target |-> 10, stop |-> "scheduled",
                          sources |->
                              [noise |-> 50, subOsc |-> 1805, mainOsc |-> 1805,
                               harmonics |-> 1805]
                              @@ (IF VibratoOn(E) THEN [vibratoLFO |-> 0]
                                  ELSE <<>>)])

\* playShortNote of src/hooks/useAudioEngine.ts: the layered pluck, made of a noise
\* burst, a sub and a main oscillator, four harmonics and, with the vibrato on, an
\* LFO of its own.
PlayShortNote(E0, made) ==
    LET E == GetAudioContext(E0, made)
    IN  IF E.ctx = "null"
        THEN Logged(E, "playShortNote", 0, TRUE)
        ELSE CreateVoice(Logged(E, "playShortNote", 0, FALSE),
                         [kind |-> "oneshot", note |-> 0, value |-> 0,
                          target |-> 10, stop |-> "scheduled",
                          sources |->
                              [noise |-> 50, subOsc |-> 1805, mainOsc |-> 1805,
                               harmonics |-> 1805]
                              @@ (IF VibratoOn(E) THEN [vibratoLFO |-> 1805]
                                  ELSE <<>>)])

\* playPreviewNote registering the new preview without touching the previous one.
PlayPreviewNoteNoFade(E0, made) ==
    LET E == GetAudioContext(E0, made)
    IN  IF E.ctx = "null"
        THEN Logged(E, "playPreviewNote", 0, TRUE)
        ELSE LET h == NewHandle(E)
                 E2 == CreateVoice(Logged(E, "playPreviewNote", 0, FALSE),
                                   [kind |-> "preview", note |-> 0, value |-> 0,
                                    target |-> 10, stop |-> "scheduled"])
             IN  IF E2.ok THEN [E2 EXCEPT !.prev = h] ELSE E2

\* playPreviewNote: fades the previous preview out, then registers the new one.
PlayPreviewNote(E0, made) ==
    LET E == GetAudioContext(E0, made)
    IN  IF E.ctx = "null"
        THEN Logged(E, "playPreviewNote", 0, TRUE)
        ELSE LET E1 == IF E.prev = 0
                       THEN E
                       ELSE IF E.v[E.prev].stop = "ended"
                            THEN [E EXCEPT !.v[E.prev] = FreeVoice]
                            ELSE [E EXCEPT !.v[E.prev].target = 0,
                                           !.v[E.prev].kind = "oldpreview"]
                 h == NewHandle(E1)
                 E2 == CreateVoice(Logged(E1, "playPreviewNote", 0, FALSE),
                                   [kind |-> "preview", note |-> 0, value |-> 0,
                                    target |-> 10, stop |-> "scheduled"])
             IN  IF E2.ok THEN [E2 EXCEPT !.prev = h] ELSE E2

(***************************************************************************)
(* updateEffects.  A configuration carries the fields of every AudioEffects *)
(* type of the repository; each hook reads its own.  Gains, seconds and     *)
(* hertz count ten-thousandths, the flanger's delay and depth              *)
(* ten-thousandths of a millisecond.                                       *)
(***************************************************************************)
\* linearRampToValueAtTime(value, now + RAMP_TIME) on each parameter of `ramps`, a
\* sequence of <<name, value>>: one more event on the parameter's timeline.
RECURSIVE RampAll(_, _)
RampAll(params, ramps) ==
    IF ramps = <<>>
    THEN params
    ELSE RampAll([params EXCEPT ![Head(ramps)[1]] =
                     [target |-> Head(ramps)[2], events |-> @.events + 1]],
                 Tail(ramps))

Max(a, b) == IF a > b THEN a ELSE b

\* The ramps of a hook that does not look at the switches of reverb and delay.
RampsLayeredIgnoringOn(effects) ==
    << <<"reverbWet", effects.reverb.wet>>,
       <<"delayWet", 5000>>,
       <<"delayTime", effects.delay.time>>,
       <<"delayFeedback", effects.delay.feedback>>,
       <<"flangerWet", IF effects.flanger.on THEN 7000 ELSE 0>>,
       <<"flangerDelay", effects.flanger.delay \div 1000>>,
       <<"flangerRate", effects.flanger.rate>>,
       <<"flangerDepth", effects.flanger.depth \div 1000>>,
       <<"flangerFeedback", effects.flanger.feedback>>,
       <<"bitcrusherWet", IF effects.bitcrusher.on THEN effects.bitcrusher.mix ELSE 0>>,
       <<"distortionWet", IF effects.distortion.on THEN 10000 ELSE 0>>,
       <<"distortionTone", effects.distortion.tone>>,
       <<"distortionOutput", effects.distortion.output>> >>

\* updateEffects of src/hooks/useAudioEngine.ts.
RampsLayered(effects) ==
    << <<"reverbWet", IF effects.reverb.on THEN effects.reverb.wet ELSE 0>>,
       <<"delayWet", IF effects.delay.on THEN 5000 ELSE 0>>,
       <<"delayTime", effects.delay.time>>,
       <<"delayFeedback", effects.delay.feedback>>,
       <<"flangerWet", IF effects.flanger.on THEN 7000 ELSE 0>>,
       <<"flangerDelay", effects.flanger.delay \div 1000>>,
       <<"flangerRate", effects.flanger.rate>>,
       <<"flangerDepth", effects.flanger.depth \div 1000>>,
       <<"flangerFeedback", effects.flanger.feedback>>,
       <<"bitcrusherWet", IF effects.bitcrusher.on THEN effects.bitcrusher.mix ELSE 0>>,
       <<"distortionWet", IF effects.distortion.on THEN 10000 ELSE 0>>,
       <<"distortionTone", effects.distortion.tone>>,
       <<"distortionOutput", effects.distortion.output>> >>

UpdateEffectsLayered(fx, effects) ==
    [fx EXCEPT !.params = RampAll(@, RampsLayered(effects)),
               !.bitcrusherCurve = IF effects.bitcrusher.on
                                   THEN effects.bitcrusher.bitDepth ELSE @,
               !.distortionCurve = <<"drive", effects.distortion.drive>>,
               !.scheduled = TRUE]

\* updateEffects of src/src/hooks/useAudioEngine.ts.
TotalWetOneshot(newEffects) ==
    (IF newEffects.reverb.on THEN newEffects.reverb.wet ELSE 0)
    + (IF newEffects.delay.on THEN 5000 ELSE 0)
    + (IF newEffects.distortion.on THEN newEffects.distortion.output ELSE 0)
    + (IF newEffects.phaser.on THEN 7000 ELSE 0)
    + (IF newEffects.flanger.on THEN 6000 ELSE 0)

RampsOneshot(newEffects) ==
    << <<"reverbWet", IF newEffects.reverb.on THEN newEffects.reverb.wet ELSE 0>>,
       <<"delayTime", newEffects.delay.time>>,
       <<"delayFeedback", newEffects.delay.feedback>>,
       <<"delayWet", IF newEffects.delay.on THEN 5000 ELSE 0>>,
       <<"distortionWet",
         IF newEffects.distortion.on THEN newEffects.distortion.output ELSE 0>>,
       <<"phaserRate", newEffects.phaser.rate>>,
       <<"phaserDepth", newEffects.phaser.depth * 1000>>,
       <<"phaserWet", IF newEffects.phaser.on THEN 7000 ELSE 0>>,
       <<"flangerDelay", newEffects.flanger.delay \div 1000>>,
       <<"flangerRate", newEffects.flanger.rate>>,
       <<"flangerDepth", newEffects.flanger.depth \div 1000>>,
       <<"flangerWet", IF newEffects.flanger.on THEN 6000 ELSE 0>>,
       <<"dry", Max(0, 10000 - (TotalWetOneshot(newEffects) \div 2))>> >>

UpdateEffectsOneshot(fx, newEffects) ==
    [fx EXCEPT !.params = RampAll(@, RampsOneshot(newEffects)),
               !.applied = <<newEffects>>,
               !.scheduled = TRUE]

\* updateEffects of src/unnamed/part_003.
TotalWetTarget(newEffects) ==
    newEffects.reverbMix + newEffects.delayMix + newEffects.distortionMix
    + newEffects.phaserMix + newEffects.flangerMix

RampsSustained(newEffects) ==
    << <<"reverbWet", newEffects.reverbMix>>,
       <<"delayWet", newEffects.delayMix>>,
       <<"distortionWet", newEffects.distortionMix>>,
       <<"phaserWet", newEffects.phaserMix>>,
       <<"flangerWet", newEffects.flangerMix>>,
       <<"phaserRate", newEffects.phaserRate>>,
       <<"phaserDepth", newEffects.phaserDepth>>,
       <<"flangerRate", newEffects.flangerRate>>,
       <<"flangerDepth", newEffects.flangerDepth>>,
       <<"dry", Max(0, 10000 - (TotalWetTarget(newEffects) \div 2))>> >>

\* It regenerates the impulse response at every call.
UpdateEffectsSustainedRegenerating(fx, newEffects) ==
    [fx EXCEPT !.impulse = @ + 1,
               !.distortionCurve = <<newEffects.distortionType, 100>>,
               !.params = RampAll(@, RampsSustained(newEffects)),
               !.applied = <<newEffects>>,
               !.scheduled = TRUE]

\* prevEffects?.reverbType and prevEffects?.distortionType
PrevType(fx, field) == IF fx.applied = <<>> THEN "undefined" ELSE fx.applied[1][field]

UpdateEffectsSustained(fx, newEffects) ==
    [fx EXCEPT !.impulse = IF PrevType(fx, "reverbType") # newEffects.reverbType
                           THEN @ + 1 ELSE @,
               !.distortionCurve =
                   IF PrevType(fx, "distortionType") # newEffects.distortionType
                   THEN <<newEffects.distortionType, 100>> ELSE @,
               !.params = RampAll(@, RampsSustained(newEffects)),
               !.applied = <<newEffects>>,
               !.scheduled = TRUE]

\* Whether the timelines and the impulse counter stay within the model's bounds.
ChainWithinBounds(fx) ==
    /\ fx.impulse <= MaxImpulses
    /\ \A p \in DOMAIN fx.params : fx.params[p].events <= MaxEvents

\* The body of updateEffects behind its guard, in the hook the App imports.
ApplyEffects(fx, effects) ==
    IF engine = "layered"
    THEN UpdateEffectsLayered(fx, effects)
    ELSE IF engine = "oneshot"
         THEN UpdateEffectsOneshot(fx, effects)
         ELSE UpdateEffectsSustained(fx, effects)

\* The buffers the body of updateEffects computes anew and installs: the hook with
\* the bitcrusher at every call, that of src/unnamed/part_003 for a type that is not
\* the one of prevEffectsRef, that of src/src/hooks/useAudioEngine.ts never.
Installed(fx, effects) ==
    IF engine = "layered"
    THEN {"distortionCurve"}
            \cup (IF effects.bitcrusher.on THEN {"bitcrusherCurve"} ELSE {})
    ELSE IF engine = "oneshot"
         THEN {}
         ELSE (IF PrevType(fx, "reverbType") # effects.reverbType
               THEN {"impulse"} ELSE {})
                 \cup (IF PrevType(fx, "distortionType") # effects.distortionType
                       THEN {"distortionCurve"} ELSE {})

\* The ramps a call of updateEffects schedules, in the hook the App imports.
Ramps(effects) ==
    IF engine = "layered"
    THEN RampsLayered(effects)
    ELSE IF engine = "oneshot" THEN RampsOneshot(effects) ELSE RampsSustained(effects)

\* linearRampToValueAtTime(value, now + RAMP_TIME) is the only call made on a
\* parameter: no setValueAtTime or cancelScheduledValues anchors the ramp at the
\* time of the call.  A ramp runs from the event before it on the timeline: with no
\* event there it starts at the current value and time; with the last event ahead of
\* the clock it starts when that one ends; with the last event behind the clock
\* the value is taken from the line between that event and the new one, so it
\* jumps at the call unless the two values are equal.  The parameters that jump:
Stepped(fx, ramps) ==
    { ramps[i][1] : i \in { j \in DOMAIN ramps :
                               /\ fx.scheduled
                               /\ fx.params[ramps[j][1]].events = 0
                               /\ fx.params[ramps[j][1]].target # ramps[j][2] } }

\* updateEffects: only the hook with the bitcrusher builds the session for it, and
\* it stores the configuration in effectsRef before its guard.  The log names the
\* configuration the call was given, the buffers it installed and the parameters
\* whose value it made jump.
UpdateEffects(E0, effects, made) ==
    LET E1 == IF engine = "layered" THEN GetAudioContext(E0, made) ELSE E0
        E == IF engine = "layered" THEN [E1 EXCEPT !.fx.applied = <<effects>>] ELSE E1
    IN  IF E.ctx = "null" \/ E.fx.built = 0
        THEN [E EXCEPT !.log = Append(@, [op |-> "updateEffects", id |-> 0,
                                          early |-> TRUE, effects |-> effects])]
        ELSE LET fx == ApplyEffects(E.fx, effects)
             IN  [E EXCEPT !.log = Append(@, [op |-> "updateEffects", id |-> 0,
                                              early |-> FALSE, effects |-> effects,
                                              installed |-> Installed(E.fx, effects),
                                              stepped |->
                                                  Stepped(E.fx, Ramps(effects))]),
                           !.fx = fx, !.ok = ChainWithinBounds(fx)]

(***************************************************************************)
(* Recording: startRecording, stopRecording and the recorder's stop event. *)
(***************************************************************************)
\* startRecording: the hook with the bitcrusher tests only that the session and its
\* stream destination exist; the other two also that the session is running, and
\* src/unnamed/part_003 reads the ref instead of calling getAudioContext.
StartRecording(E0, made) ==
    LET E == IF engine = "sustained" THEN E0 ELSE GetAudioContext(E0, made)
    IN  IF E.ctx = "null" \/ (engine # "layered" /\ E.ctx # "running")
        THEN Logged(E, "startRecording", 0, TRUE)
        ELSE [Logged(E, "startRecording", 0, FALSE)
                 EXCEPT !.rec.ref = "recording", !.rec.settled = "none",
                        !.rec.url = "none", !.isRec = TRUE,
                        !.rec.lost = IF E.rec.ref = "recording" THEN @ + 1 ELSE @,
                        !.ok = E.rec.ref # "recording" \/ E.rec.lost < MaxPending]

\* stopRecording calling stop() whatever the ref holds: stop() of a recorder that is
\* not recording, or of null, throws inside the executor and the promise rejects.
StopRecordingNoGuard(E) ==
    IF E.rec.ref = "recording"
    THEN [Logged(E, "stopRecording", 0, FALSE)
             EXCEPT !.rec.ref = "inactive", !.rec.stopping = @ + 1,
                    !.ok = E.rec.stopping < MaxPending]
    ELSE [Logged(E, "stopRecording", 0, TRUE)
             EXCEPT !.rec.settled = "rejected", !.rec.url = "none"]

\* stopRecording: with a recorder that records it sets onstop and calls stop(), the
\* promise staying pending; otherwise it clears isRecording and resolves to ''.
StopRecording(E) ==
    IF E.rec.ref = "recording"
    THEN [Logged(E, "stopRecording", 0, FALSE)
             EXCEPT !.rec.ref = "inactive", !.rec.stopping = @ + 1,
                    !.ok = E.rec.stopping < MaxPending]
    ELSE [Logged(E, "stopRecording", 0, TRUE)
             EXCEPT !.isRec = FALSE, !.rec.settled = "resolved", !.rec.url = ""]

\* onstop: the blob's object URL resolves the promise.
OnStop(E) ==
    [E EXCEPT !.isRec = FALSE, !.rec.stopping = @ - 1,
              !.rec.settled = "resolved", !.rec.url = "blob:"]

\* The engine state a handler leaves behind.
Commit(E) ==
    /\ E.ok
    /\ audioCtx' = E.ctx
    /\ activeSources' = E.src
    /\ previewNode' = E.prev
    /\ voices' = E.v
    /\ calls' = E.log
    /\ effectsChain' = E.fx
    /\ recorder' = E.rec

\* The audio clock passes every scheduled stop time: the oscillators with a
\* scheduled stop end; an ended voice that no ref holds is gone, while a voice with
\* a source that was started without a stop keeps that source running.
AudioClock ==
    /\ audioCtx = "running"
    /\ \E h \in Handles : voices[h].stop = "scheduled"
    /\ voices' = [h \in Handles |->
                    LET v == voices[h]
                        running == IF "sources" \in DOMAIN v
                                   THEN {x \in DOMAIN v.sources : v.sources[x] = 0}
                                   ELSE {}
                    IN  IF v.stop # "scheduled" THEN v
                        ELSE IF h = previewNode
                             THEN [v EXCEPT !.stop = "ended"]
                             ELSE IF running # {}
                                  THEN [v EXCEPT !.stop = "no",
                                                 !.sources = [x \in running |-> 0]]
                                  ELSE FreeVoice]
    /\ calls' = <<>>
    /\ UNCHANGED <<appVars, isRecording, audioCtx, activeSources, previewNode,
                   effectsChain, recorder>>

(***************************************************************************)
(* Collision helpers of App.tsx.  A note is [id, track, angle, dur, color]; *)
(* dur is 0 for a point note, whose durationAngle is undefined.            *)
(***************************************************************************)
isAngleInArc(angle, arcStart, arcDuration) ==
    LET arcEnd == JsMod(arcStart + arcDuration, FULL)
    IN  IF arcStart < arcEnd
        THEN angle >= arcStart /\ angle <= arcEnd
        ELSE angle >= arcStart \/ angle <= arcEnd

doArcsOverlap(start1, duration1, start2, duration2) ==
    LET end1 == JsMod(start1 + duration1, FULL)
        end2 == JsMod(start2 + duration2, FULL)
    IN  \/ isAngleInArc(start1, start2, duration2)
        \/ isAngleInArc(end1, start2, duration2)
        \/ isAngleInArc(start2, start1, duration1)
        \/ isAngleInArc(end2, start1, duration1)

\* Whether findNoteAt's loop body returns `note` for a click at `angle`.
NoteHit(note, track, angle) ==
    /\ note.track = track
    /\ IF note.dur > 0
       THEN isAngleInArc(angle, note.angle, note.dur)
       ELSE Min(Abs(note.angle - angle), FULL - Abs(note.angle - angle))
                < NOTE_ANGULAR_RADIUS[track + 1]

\* findNoteAt: the index of the first note hit, 0 for null.
findNoteAt(ns, track, angle) ==
    LET hits == {i \in 1 .. Len(ns) : NoteHit(ns[i], track, angle)}
    IN  IF hits = {} THEN 0 ELSE CHOOSE i \in hits : \A j \in hits : i <= j

(***************************************************************************)
(* The scheduler: animate, one call per display frame.                     *)
(***************************************************************************)
\* degreesPerFrame = (360 / rotationSpeed) / 60, the speed being in half seconds.
DegreesPerFrame(speed) == ((2 * FULL) \div speed) \div 60

\* newRotation without the % 360.
NewRotationUnwrapped(prevRotation, speed) == prevRotation + DegreesPerFrame(speed)

NewRotation(prevRotation, speed) == JsMod(prevRotation + DegreesPerFrame(speed), FULL)

\* playheadPosition of the App's animate.
Playhead == IF build \in {"drag", "span"} THEN PlayheadPosition ELSE PlayheadTop

\* isCurrentlyActive of a sustained note once the disc stands at newRotation.  Where
\* the arc ends on its own start the App of part_005 tests neither case.
IsCurrentlyActive(note, newRotation) ==
    LET visualStartAngle == JsMod(note.angle + newRotation, FULL)
        visualEndAngle == JsMod(visualStartAngle + note.dur, FULL)
    IN  IF visualStartAngle < visualEndAngle
        THEN Playhead >= visualStartAngle /\ Playhead < visualEndAngle
        ELSE IF build = "click" /\ visualStartAngle = visualEndAngle
             THEN FALSE
             ELSE Playhead >= visualStartAngle \/ Playhead < visualEndAngle

\* crossed of a point note for the step from prevRotation to newRotation.
Crossed(note, prevRotation, newRotation) ==
    LET prevNoteVisualAngle == JsMod(note.angle + prevRotation, FULL)
        rotationIncrement == JsMod(newRotation - prevRotation + FULL, FULL)
        angleToPlayhead == JsMod(PlayheadPosition - prevNoteVisualAngle + FULL, FULL)
    IN  angleToPlayhead > 0 /\ angleToPlayhead <= rotationIncrement

\* crossed of src/unnamed/part_006: the playhead between the two visual angles.
CrossedSpan(note, prevRotation, newRotation) ==
    LET prevVisualAngle == JsMod(note.angle + prevRotation, FULL)
        currentVisualAngle == JsMod(note.angle + newRotation, FULL)
    IN  IF prevVisualAngle < currentVisualAngle
        THEN prevVisualAngle < PlayheadPosition /\ currentVisualAngle >= PlayheadPosition
        ELSE IF prevVisualAngle > currentVisualAngle
             THEN prevVisualAngle < PlayheadPosition \/ currentVisualAngle >= PlayheadPosition
             ELSE FALSE

\* crossed of src/src/App.tsx and src/unnamed/part_007: the playhead at the top,
\* the wrap told by the quadrants of the two visual angles.
CrossedAtTop(note, prevRotation, newRotation) ==
    LET prevNoteVisualAngle == JsMod(note.angle + prevRotation, FULL)
        currentNoteVisualAngle == JsMod(note.angle + newRotation, FULL)
    IN  \/ prevNoteVisualAngle > 2700 /\ currentNoteVisualAngle < 900
        \/ prevNoteVisualAngle < PlayheadTop /\ currentNoteVisualAngle >= PlayheadTop

\* now - lastPlayed > 250, lastPlayed being 0 for a note never played.
DebounceOpenAlways(ages, id) == TRUE

DebounceOpen(ages, id) == id \notin DOMAIN ages \/ ages[id] > DEBOUNCE

\* octaveMultiplier: Math.pow(2, note.track), and in src/unnamed/part_007
\* Math.pow(2, TRACK_RADII.length - 1 - note.track).
OctaveMultiplier(track) ==
    IF build = "tapmode" THEN 2 ^ (TRACK_COUNT - 1 - track) ELSE 2 ^ track

\* noteDetails.freq * octaveMultiplier, in hundredths of a hertz.
NoteFrequency(note) == NOTE_FREQ[note.color] * OctaveMultiplier(note.track)

\* The frequency the App passed in the call the engine logged last.
WithFrequency(E, freq) ==
    [E EXCEPT !.log[Len(E.log)] = [op |-> @.op, id |-> @.id, early |-> @.early,
                                   freq |-> freq]]

\* The sustained branch without wasActive: a start on every tick inside the span.
AnimateSustainedRestarting(S, note, newRotation) ==
    IF IsCurrentlyActive(note, newRotation)
    THEN [S EXCEPT !.E = WithFrequency(StartSustainedNote(S.E, note.id),
                                       NoteFrequency(note)),
                   !.playing = @ \cup {note.id}]
    ELSE [S EXCEPT !.E = StopSustainedNote(S.E, note.id),
                   !.playing = @ \ {note.id}]

\* A scheduler state S is [E, playing, ages]: the engine, playingSustainedNotesRef
\* and the ages of lastPlayedRef.  The sustained branch of notes.forEach:
AnimateSustained(S, note, newRotation) ==
    LET isCurrentlyActive == IsCurrentlyActive(note, newRotation)
        wasActive == note.id \in S.playing
    IN  IF isCurrentlyActive /\ ~wasActive
        THEN [S EXCEPT !.E = WithFrequency(StartSustainedNote(S.E, note.id),
                                           NoteFrequency(note)),
                       !.playing = @ \cup {note.id}]
        ELSE IF ~isCurrentlyActive /\ wasActive
             THEN [S EXCEPT !.E = StopSustainedNote(S.E, note.id),
                            !.playing = @ \ {note.id}]
             ELSE S

\* The body of notes.forEach in src/src/App.tsx and src/unnamed/part_007: the
\* debounce is taken before the track is looked at.
AnimateNoteTap(S, note, prevRotation, newRotation, made) ==
    IF CrossedAtTop(note, prevRotation, newRotation) /\ DebounceOpen(S.ages, note.id)
    THEN [S EXCEPT !.E = IF activeTracks[note.track]
                         THEN WithFrequency(PlayNote(S.E, note.id, made),
                                            NoteFrequency(note))
                         ELSE S.E,
                   !.ages = (note.id :> 0) @@ @]
    ELSE S

\* The body of notes.forEach for one note, in the App of the build.
AnimateNote(S, note, prevRotation, newRotation, made) ==
    IF build \in {"tap", "tapmode"}
    THEN AnimateNoteTap(S, note, prevRotation, newRotation, made)
    ELSE IF ~activeTracks[note.track]
         THEN S
         ELSE IF note.dur > 0 \/ build = "click"
              THEN AnimateSustained(S, note, newRotation)
              ELSE IF /\ IF build = "span"
                         THEN CrossedSpan(note, prevRotation, newRotation)
                         ELSE Crossed(note, prevRotation, newRotation)
                      /\ DebounceOpen(S.ages, note.id)
                   THEN [S EXCEPT !.E = WithFrequency(PlayNote(S.E, note.id, made),
                                                      NoteFrequency(note)),
                                  !.ages = (note.id :> 0) @@ @]
                   ELSE S

RECURSIVE AnimateFrom(_, _, _, _, _)
AnimateFrom(S, i, prevRotation, newRotation, made) ==
    IF i > Len(notes)
    THEN S
    ELSE AnimateFrom(AnimateNote(S, notes[i], prevRotation, newRotation, made),
                     i + 1, prevRotation, newRotation, made)

\* Date.now() moves on by dt milliseconds.
Aged(ages, dt) == [i \in DOMAIN ages |-> Min(ages[i] + dt, DEBOUNCE + 1)]

\* playingSustainedNotesRef.current.forEach(noteId => stopSustainedNote(noteId))
RECURSIVE StopAll(_, _)
StopAll(E, ids) ==
    IF ids = {}
    THEN E
    ELSE LET id == CHOOSE i \in ids : \A j \in ids : i <= j
         IN  StopAll(StopSustainedNote(E, id), ids \ {id})

\* The effect on [isPlaying, animate, stopSustainedNote] not stopping anything.
PlayPauseEffectNoStop(E, playing) == [E |-> E, playing |-> {}]

\* The effect on [isPlaying, animate, stopSustainedNote], run with the new
\* isPlaying: it requests a frame, or stops every sustained note and clears the set.
PlayPauseEffect(E, playing) == [E |-> StopAll(E, playing), playing |-> {}]

(***************************************************************************)
(* Inputs of the environment.                                              *)
(***************************************************************************)
\* What the constructor of AudioContext yields: a context in one of its states, or
\* "null" when it throws (getAudioContext catches that and leaves the ref empty).
CtxMade == {"null", "suspended", "running"}

\* Rotation speeds (half seconds per revolution) whose step is a whole number of tenths.
Speeds == {4, 8}

\* Milliseconds between two display frames.
FrameMs == {2, 12}

\* The frame interval of a 60 Hz display, in whole milliseconds.
NominalFrameMs == 16

\* Tracks and angles the mouse reports.
MouseTracks == {0, 2}
MouseAngles == {0, 1200, 2400}

\* Angles of clicks: neighbouring slots on either side of 0 degrees.
ClickAngles == {0, 120, 250, 3550}

\* A configuration of the effects panel: `a` switches reverb, bitcrusher and
\* distortion, `b` delay, phaser and flanger; `level` is the mix of those switched on.
Preset(a, b, level) ==
    [reverb |-> [on |-> a, decay |-> 20000, wet |-> level],
     delay |-> [on |-> b, time |-> 3000, feedback |-> 4000],
     flanger |-> [on |-> b, delay |-> 50000, depth |-> 20000, rate |-> 5000,
                  feedback |-> 5000],
     bitcrusher |-> [on |-> a, bitDepth |-> 8, mix |-> level],
     distortion |-> [on |-> a, drive |-> 5000, tone |-> 40000000, output |-> level],
     phaser |-> [on |-> b, rate |-> 5000, depth |-> 5000],
     vibrato |-> [on |-> a, rate |-> 50000, depth |-> 50000],
     reverbType |-> IF a THEN "long" ELSE "medium",
     distortionType |-> IF a THEN "soft" ELSE "hard",
     reverbMix |-> IF a THEN level ELSE 0,
     delayMix |-> IF b THEN level ELSE 0,
     distortionMix |-> IF a THEN level ELSE 0,
     phaserMix |-> IF b THEN level ELSE 0,
     flangerMix |-> IF b THEN level ELSE 0,
     phaserRate |-> 5000, phaserDepth |-> 5000000,
     flangerRate |-> 2500, flangerDepth |-> 20]

EffectConfigs == {Preset(a, b, level) : a \in BOOLEAN, b \in BOOLEAN, level \in {4000, 10000}}

\* The sliders that define a buffer, moved one at a time or together: the reverb's
\* decay (seconds), the distortion's drive and the bitcrusher's bit depth; `a`
\* switches reverb, bitcrusher and distortion.
BufferConfigs ==
    { [Preset(a, FALSE, 4000) EXCEPT !.reverb.decay = decay,
                                     !.distortion.drive = drive,
                                     !.bitcrusher.bitDepth = bitDepth] :
        a \in BOOLEAN, decay \in {20000, 35000}, drive \in {5000, 8000},
        bitDepth \in {8, 4} }

\* The configuration the App holds while the session and the recorder are exercised.
SessionConfigs == {Preset(TRUE, FALSE, 4000)}

\* The choices that make a difference in the current state.
MadeChoices == IF audioCtx = "null" THEN CtxMade ELSE {audioCtx}
ResumeChoices == IF audioCtx = "running" THEN {TRUE} ELSE BOOLEAN
FrameChoices == IF DOMAIN lastPlayedAge = {} THEN {NominalFrameMs} ELSE FrameMs

\* The effect on [isPlaying, animate, stopSustainedNote] without a cleanup function.
RunEffectNoCleanup(F, playing) ==
    IF playing
    THEN [pending |-> F.pending + 1, live |-> TRUE]
    ELSE [pending |-> F.pending - (IF F.live THEN 1 ELSE 0), live |-> FALSE]

\* A render that changed isPlaying or animate: the cleanup of the effect cancels the
\* callback animationFrameRef names, then the effect requests one for the new
\* animate when playing and cancels again when not.  pending counts the callbacks
\* requestAnimationFrame holds, live tells whether the one the ref names is among
\* them (cancelling an id that has run or was cancelled does nothing).
RunEffect(F, playing) ==
    LET cancelled == [pending |-> F.pending - (IF F.live THEN 1 ELSE 0), live |-> FALSE]
    IN  IF playing
        THEN [pending |-> cancelled.pending + 1, live |-> TRUE]
        ELSE cancelled

NoDrag == [on |-> FALSE, startTrack |-> 0, startAngle |-> 0, lastAngle |-> 0,
           totalAngleDelta |-> 0]

(***************************************************************************)
(* The handlers of App.tsx.                                                *)
(***************************************************************************)
\* animate: one display frame taking the disc to newRotation; the next event comes
\* dt milliseconds after it, so lastPlayedAge always holds what the next handler's
\* Date.now() will see.
Animate(newRotation, dt, made) ==
    /\ isPlaying
    /\ animationFrame.pending >= 1
    /\ animationFrame' = [animationFrame EXCEPT !.live = TRUE]
    /\ LET S == AnimateFrom([E |-> Engine, playing |-> playingSustainedNotes,
                             ages |-> lastPlayedAge],
                            1, rotation, newRotation, made)
       IN  /\ Commit(S.E)
           /\ rotation' = newRotation
           /\ playingSustainedNotes' = S.playing
           /\ lastPlayedAge' = Aged(S.ages, dt)
           /\ frameDelta' = dt
    /\ UNCHANGED <<engine, composition, build, isSustainMode, notes, nextId, isPlaying, rotationSpeed, activeTracks, dragState,
                   isRecording>>

Tick(dt, made) == Animate(NewRotation(rotation, rotationSpeed), dt, made)

\* animate stepping the disc by `step` instead of degreesPerFrame, as it would if
\* the step followed the time since the last frame; the frame comes after the
\* debounce has run out.
TickBy(step, made) == Animate(JsMod(rotation + step, FULL), DEBOUNCE + 1, made)

\* setIsPlaying(playing) followed by the effect on [isPlaying, animate, stopSustainedNote].
SetIsPlaying(E, playing) ==
    /\ IF playing
       THEN /\ Commit(E)
            /\ isPlaying' = TRUE
            /\ UNCHANGED playingSustainedNotes
       ELSE LET R == PlayPauseEffect(E, playingSustainedNotes)
            IN  /\ Commit(R.E)
                /\ isPlaying' = FALSE
                /\ playingSustainedNotes' = R.playing
    /\ animationFrame' = IF playing = isPlaying
                         THEN animationFrame
                         ELSE RunEffect(animationFrame, playing)

HandlePlayPause(made, resumed) ==
    /\ SetIsPlaying(ResumeAudio(Engine, made, resumed), ~isPlaying)
    /\ UNCHANGED <<engine, composition, frameDelta, build, isSustainMode, notes, nextId, rotationSpeed, rotation, activeTracks, dragState,
                   lastPlayedAge, isRecording>>

\* handleRecord: stops a running capture (awaiting the promise of stopRecording, which
\* the recorder's stop event resolves) and playback, or starts both.
HandleRecord(made, resumed) ==
    LET E == ResumeAudio(Engine, made, resumed)
    IN  /\ IF isRecording
           THEN LET E1 == StopRecording(E)
                    E2 == IF E1.rec.stopping > 0 THEN OnStop(E1) ELSE E1
                IN  /\ isRecording' = E2.isRec
                    /\ SetIsPlaying(E2, FALSE)
           ELSE LET E1 == StartRecording(E, made)
                IN  /\ isRecording' = E1.isRec
                    /\ SetIsPlaying(E1, TRUE)
        /\ UNCHANGED <<engine, composition, frameDelta, build, isSustainMode, notes, nextId, rotationSpeed, rotation, activeTracks, dragState,
                       lastPlayedAge>>

\* handleRecord up to its first await: resumeAudio is called and the run waits,
\* holding the isRecording of the render it was created in.
HandleRecordBegins(made, resumed) ==
    /\ Len(recorder.pending) < MaxPending
    /\ Commit([ResumeAudio(Engine, made, resumed)
                  EXCEPT !.rec.pending = Append(@, isRecording)])
    /\ UNCHANGED <<appVars, isRecording>>

\* handleRecord from its first await on, for the run that has waited longest.
HandleRecordResumes(made) ==
    /\ recorder.pending # <<>>
    /\ LET E == [Engine EXCEPT !.rec.pending = Tail(@)]
       IN  IF Head(recorder.pending)
           THEN LET E1 == StopRecording(E)
                    E2 == IF E1.rec.stopping > 0 THEN OnStop(E1) ELSE E1
                IN  /\ isRecording' = E2.isRec
                    /\ SetIsPlaying(E2, FALSE)
           ELSE LET E1 == StartRecording(E, made)
                IN  /\ isRecording' = E1.isRec
                    /\ SetIsPlaying(E1, TRUE)
    /\ UNCHANGED <<engine, composition, frameDelta, build, isSustainMode, notes, nextId,
                   rotationSpeed, rotation, activeTracks, dragState, lastPlayedAge>>

HandleSpeedChange(newSpeed) ==
    /\ newSpeed # rotationSpeed
    /\ rotationSpeed' = newSpeed
    /\ calls' = <<>>
    /\ UNCHANGED <<engine, composition, frameDelta, build, isSustainMode, notes, nextId, isPlaying, rotation, activeTracks, dragState,
                   playingSustainedNotes, lastPlayedAge, isRecording, audioCtx,
                   activeSources, previewNode, voices,
                   effectsChain, recorder>>
    /\ animationFrame' = RunEffect(animationFrame, isPlaying)

HandleClear ==
    /\ notes' = <<>>
    /\ calls' = <<>>
    /\ UNCHANGED <<engine, composition, frameDelta, build, isSustainMode, nextId, isPlaying, rotationSpeed, rotation,
                   activeTracks, dragState,
                   playingSustainedNotes, lastPlayedAge, isRecording, audioCtx,
                   activeSources, previewNode, voices,
                   effectsChain, recorder>>
    /\ animationFrame' = RunEffect(animationFrame, isPlaying)

\* handleToggleTrack also removing the notes of the track.
HandleToggleTrackRemoving(trackIndex) ==
    /\ activeTracks' = [activeTracks EXCEPT ![trackIndex] = ~@]
    /\ notes' = SelectSeq(notes, LAMBDA n : n.track # trackIndex)
    /\ calls' = <<>>
    /\ UNCHANGED <<engine, composition, frameDelta, build, isSustainMode, nextId, isPlaying, rotationSpeed, rotation, dragState,
                   playingSustainedNotes, lastPlayedAge, isRecording, audioCtx,
                   activeSources, previewNode, voices,
                   effectsChain, recorder>>
    /\ animationFrame' = RunEffect(animationFrame, isPlaying)

HandleToggleTrack(trackIndex) ==
    /\ activeTracks' = [activeTracks EXCEPT ![trackIndex] = ~@]
    /\ calls' = <<>>
    /\ UNCHANGED <<engine, composition, frameDelta, build, isSustainMode, notes, nextId, isPlaying, rotationSpeed, rotation, dragState,
                   playingSustainedNotes, lastPlayedAge, isRecording, audioCtx,
                   activeSources, previewNode, voices,
                   effectsChain, recorder>>
    /\ animationFrame' = RunEffect(animationFrame, isPlaying)

(***************************************************************************)
(* Note placement: handleMouseDown, handleMouseMove, handleMouseUp.        *)
(***************************************************************************)
\* Math.round(angle / snap) * snap, before the % 360.
SnapRaw(angle, snap) == angle

SnapRound(angle, snap) == JsRound(angle, snap) * snap

\* notes.filter(n => n.id !== id)
RECURSIVE WithoutId(_, _)
WithoutId(ns, id) ==
    IF ns = <<>>
    THEN <<>>
    ELSE IF Head(ns).id = id
         THEN WithoutId(Tail(ns), id)
         ELSE <<Head(ns)>> \o WithoutId(Tail(ns), id)

\* The handler returning at once (if (isPlaying) return): no engine call, no change.
Returned ==
    /\ calls' = <<>>
    /\ UNCHANGED <<appVars, isRecording, audioCtx, activeSources, previewNode, voices,
                   effectsChain, recorder>>

\* handleMouseDown after its guard: await resumeAudio(), then the note under the
\* pointer is removed or a drag begins.
MouseDownBody(track, angle, made, resumed) ==
    /\ Commit(ResumeAudio(Engine, made, resumed))
    /\ LET noteToRemove == findNoteAt(notes, track, angle)
           snapAngleForTrack == SnapAngle(track)
           snappedAngle == JsMod(SnapRound(angle, snapAngleForTrack), FULL)
       IN  IF noteToRemove # 0
           THEN /\ notes' = WithoutId(notes, notes[noteToRemove].id)
                /\ UNCHANGED dragState
           ELSE IF findNoteAt(notes, track, snappedAngle) # 0
                THEN UNCHANGED <<notes, dragState>>
                ELSE /\ dragState' = [on |-> TRUE, startTrack |-> track,
                                      startAngle |-> snappedAngle,
                                      lastAngle |-> snappedAngle, totalAngleDelta |-> 0]
                     /\ UNCHANGED notes
    /\ UNCHANGED <<engine, composition, frameDelta, build, isSustainMode, nextId, isPlaying, rotationSpeed, rotation,
                   activeTracks, playingSustainedNotes, lastPlayedAge, isRecording>>
    /\ animationFrame' = IF notes' # notes
                         THEN RunEffect(animationFrame, isPlaying)
                         ELSE animationFrame

\* handleMouseDown without `if (isPlaying) return`.
HandleMouseDownUnguarded(track, angle, made, resumed) ==
    /\ build = "drag"
    /\ MouseDownBody(track, angle, made, resumed)

HandleMouseDown(track, angle, made, resumed) ==
    /\ build = "drag"
    /\ IF isPlaying THEN Returned ELSE MouseDownBody(track, angle, made, resumed)

\* The signed step of the pointer, taken the short way round the disc.
MoveDelta(angle, lastAngle) ==
    LET d0 == angle - lastAngle
        d1 == IF d0 > FULL \div 2 THEN d0 - FULL ELSE d0
    IN  IF d1 < 0 - (FULL \div 2) THEN d1 + FULL ELSE d1

HandleMouseMove(track, angle) ==
    /\ build = "drag"
    /\ dragState.on
    /\ track = dragState.startTrack
    /\ LET total == dragState.totalAngleDelta + MoveDelta(angle, dragState.lastAngle)
       IN  /\ Abs(total) <= MaxTurns * FULL
           /\ dragState' = [dragState EXCEPT !.lastAngle = angle, !.totalAngleDelta = total]
    /\ calls' = <<>>
    /\ UNCHANGED <<engine, composition, frameDelta, animationFrame, build, isSustainMode, notes, nextId, isPlaying, rotationSpeed, rotation, activeTracks,
                   playingSustainedNotes, lastPlayedAge, isRecording, audioCtx,
                   activeSources, previewNode, voices,
                   effectsChain, recorder>>

\* The test of notes.some(...) in isSlotOccupied for one existing note.
OccupiedBy(existingNote, checkTrack, checkAngle, duration) ==
    /\ existingNote.track = checkTrack
    /\ IF duration > 0
       THEN IF existingNote.dur > 0
            THEN doArcsOverlap(checkAngle, duration, existingNote.angle, existingNote.dur)
            ELSE isAngleInArc(existingNote.angle, checkAngle, duration)
       ELSE IF existingNote.dur > 0
            THEN isAngleInArc(checkAngle, existingNote.angle, existingNote.dur)
            ELSE 2 * Abs(existingNote.angle - checkAngle) < SnapAngle(checkTrack)

isSlotOccupied(ns, checkTrack, checkAngle, duration) ==
    \E i \in 1 .. Len(ns) : OccupiedBy(ns[i], checkTrack, checkAngle, duration)

\* The note handleMouseUp would add for the drag d: a record with add = FALSE when
\* the slot is taken.
DragResult(ns, d) ==
    LET snapAngleForTrack == SnapAngle(d.startTrack)
        point == [add |-> ~isSlotOccupied(ns, d.startTrack, d.startAngle, 0),
                  angle |-> d.startAngle, dur |-> 0]
        snappedTotalAngle == SnapRound(d.totalAngleDelta, snapAngleForTrack)
        finalAngle == IF snappedTotalAngle >= 0
                      THEN d.startAngle
                      ELSE JsMod(d.startAngle + snappedTotalAngle + FULL, FULL)
        finalDuration == IF snappedTotalAngle >= 0
                         THEN snappedTotalAngle
                         ELSE 0 - snappedTotalAngle
    IN  IF 2 * Abs(d.totalAngleDelta) < snapAngleForTrack
        THEN point
        ELSE IF 2 * finalDuration < snapAngleForTrack
             THEN point
             ELSE [add |-> ~isSlotOccupied(ns, d.startTrack, finalAngle, finalDuration),
                   angle |-> finalAngle,
                   dur |-> IF finalDuration >= FULL THEN FULL_CIRCLE_CAP ELSE finalDuration]

\* handleMouseUp, and handleMouseLeave, which calls it while a drag is open.
HandleMouseUp ==
    /\ build = "drag"
    /\ dragState.on
    /\ LET r == DragResult(notes, dragState)
       IN  IF r.add
           THEN /\ Len(notes) < MaxNotes
                /\ nextId <= MaxIds
                /\ notes' = Append(notes, [id |-> nextId, track |-> dragState.startTrack,
                                           angle |-> r.angle, dur |-> r.dur,
                                           color |-> activeColor])
                /\ nextId' = nextId + 1
           ELSE UNCHANGED <<notes, nextId>>
    /\ dragState' = NoDrag
    /\ calls' = <<>>
    /\ UNCHANGED <<engine, composition, frameDelta, build, isSustainMode, isPlaying, rotationSpeed, rotation, activeTracks,
                   playingSustainedNotes, lastPlayedAge, isRecording, audioCtx,
                   activeSources, previewNode, voices,
                   effectsChain, recorder>>
    /\ animationFrame' = IF notes' # notes
                         THEN RunEffect(animationFrame, isPlaying)
                         ELSE animationFrame

(***************************************************************************)
(* Note placement of the App of src/unnamed/part_005: handleDiscClick, with *)
(* its sustain mode.  Every note of this App has a duration; the model     *)
(* places notes of one colour.                                             *)
(***************************************************************************)
\* isAngleInArc of this App: the end of the arc is excluded (angle < arcEnd - 0.001).
isAngleInSlotArc(angle, arcStart, arcDuration) ==
    LET arcEnd == JsMod(arcStart + arcDuration, FULL)
    IN  IF arcStart < arcEnd
        THEN angle >= arcStart /\ angle < arcEnd
        ELSE angle >= arcStart \/ angle < arcEnd

\* The first of the indices `hits` of the note list, 0 for none: what a loop with
\* return, or notes.find, yields.
FirstIndex(hits) ==
    IF hits = {} THEN 0 ELSE CHOOSE i \in hits : \A j \in hits : i <= j

findNoteAtSlot(ns, track, angle) ==
    FirstIndex({i \in 1 .. Len(ns) :
                   ns[i].track = track /\ isAngleInSlotArc(angle, ns[i].angle, ns[i].dur)})

\* Math.floor(angle / snap) * snap, before the % 360.
SnapFloor(angle, snap) == JsFloor(angle, snap) * snap

\* notes.map(n => n.id === id ? {...n, angle, durationAngle} : n)
Replaced(ns, id, angle, dur) ==
    [i \in 1 .. Len(ns) |->
        IF ns[i].id = id THEN [ns[i] EXCEPT !.angle = angle, !.dur = dur] ELSE ns[i]]

\* The note list handleDiscClick sets in sustain mode for a click on an empty slot.
SustainClick(ns, track, snappedAngle, snap) ==
    LET OnLeft(n) == n.track = track /\ Abs(JsMod(n.angle + n.dur, FULL) - snappedAngle) < 10
        OnRight(n) == n.track = track /\ Abs(n.angle - JsMod(snappedAngle + snap, FULL)) < 10
        noteOnLeft == FirstIndex({i \in 1 .. Len(ns) : OnLeft(ns[i])})
        noteOnRight == FirstIndex({i \in 1 .. Len(ns) : OnRight(ns[i])})
    IN  IF noteOnLeft # 0 /\ noteOnRight # 0
        THEN Append(WithoutId(WithoutId(ns, ns[noteOnLeft].id), ns[noteOnRight].id),
                    [ns[noteOnLeft] EXCEPT
                        !.dur = ns[noteOnLeft].dur + snap + ns[noteOnRight].dur])
        ELSE IF noteOnLeft # 0
             THEN Replaced(ns, ns[noteOnLeft].id, ns[noteOnLeft].angle,
                           ns[noteOnLeft].dur + snap)
             ELSE IF noteOnRight # 0
                  THEN Replaced(ns, ns[noteOnRight].id, snappedAngle,
                                ns[noteOnRight].dur + snap)
                  ELSE ns

HandleDiscClick(track, angle, made, resumed) ==
    /\ build = "click"
    /\ IF isPlaying
       THEN Returned
       ELSE /\ Commit(ResumeAudio(Engine, made, resumed))
            /\ LET snapAngleForTrack == SnapAngle(track)
                   snappedAngle == JsMod(SnapFloor(angle, snapAngleForTrack), FULL)
                   noteAtSnappedSlot == findNoteAtSlot(notes, track, snappedAngle)
               IN  IF noteAtSnappedSlot # 0
                   THEN /\ notes' = WithoutId(notes, notes[noteAtSnappedSlot].id)
                        /\ UNCHANGED nextId
                   ELSE IF isSustainMode
                        THEN /\ notes' = SustainClick(notes, track, snappedAngle, snapAngleForTrack)
                             /\ UNCHANGED nextId
                        ELSE /\ Len(notes) < MaxNotes
                             /\ nextId <= MaxIds
                             /\ notes' = Append(notes, [id |-> nextId, track |-> track,
                                                        angle |-> snappedAngle,
                                                        dur |-> snapAngleForTrack,
                                                        color |-> activeColor])
                             /\ nextId' = nextId + 1
            /\ UNCHANGED <<engine, composition, frameDelta, build, isSustainMode, isPlaying, rotationSpeed, rotation, activeTracks,
                           dragState, playingSustainedNotes, lastPlayedAge, isRecording>>
            /\ animationFrame' = IF notes' # notes
                                 THEN RunEffect(animationFrame, isPlaying)
                                 ELSE animationFrame

HandleToggleSustainMode ==
    /\ build = "click"
    /\ isSustainMode' = ~isSustainMode
    /\ calls' = <<>>
    /\ UNCHANGED <<engine, composition, frameDelta, animationFrame, build, notes, nextId, isPlaying, rotationSpeed, rotation, activeTracks,
                   dragState, playingSustainedNotes, lastPlayedAge, isRecording, audioCtx,
                   activeSources, previewNode, voices,
                   effectsChain, recorder>>

(***************************************************************************)
(* Note placement of the App of src/src/App.tsx: handleAddOrRemoveNote,    *)
(* which the Disc calls from its handleMouseDown unless the disc is        *)
(* playing.                                                                *)
(***************************************************************************)
\* The Disc's handleMouseDown (if (isPlaying) return) calling handleAddOrRemoveNote,
\* where every note is hit like a point.
HandleAddOrRemoveNote(track, angle, made, resumed) ==
    /\ build = "tap"
    /\ IF isPlaying
       THEN Returned
       ELSE /\ Commit(ResumeAudio(Engine, made, resumed))
            /\ LET existingNoteIndex ==
                       FirstIndex({i \in 1 .. Len(notes) :
                          /\ notes[i].track = track
                          /\ Min(Abs(notes[i].angle - angle),
                                 FULL - Abs(notes[i].angle - angle))
                                < NOTE_ANGULAR_RADIUS[track + 1]})
                   snapAngleForTrack == SnapAngle(track)
                   snappedAngle == JsMod(SnapRound(angle, snapAngleForTrack), FULL)
                   isSlotTaken == \E i \in 1 .. Len(notes) :
                                      notes[i].track = track /\ notes[i].angle = snappedAngle
               IN  IF existingNoteIndex # 0
                   THEN /\ notes' = [i \in 1 .. Len(notes) - 1 |->
                                        IF i < existingNoteIndex THEN notes[i]
                                        ELSE notes[i + 1]]
                        /\ UNCHANGED nextId
                   ELSE IF isSlotTaken
                        THEN UNCHANGED <<notes, nextId>>
                        ELSE /\ Len(notes) < MaxNotes
                             /\ nextId <= MaxIds
                             /\ notes' = Append(notes,
                                                [id |-> nextId, track |-> track,
                                                 angle |-> snappedAngle,
                                                 dur |-> snapAngleForTrack,
                                                 color |-> activeColor])
                             /\ nextId' = nextId + 1
            /\ UNCHANGED <<engine, composition, frameDelta, build, isSustainMode, isPlaying,
                           rotationSpeed, rotation, activeTracks, dragState,
                           playingSustainedNotes, lastPlayedAge, isRecording>>
            /\ animationFrame' = IF notes' # notes
                                 THEN RunEffect(animationFrame, isPlaying)
                                 ELSE animationFrame

(***************************************************************************)
(* generateComposition of ai/gemini.ts.  A response of the model is the    *)
(* request failing ("error", with or without the text API_KEY in its       *)
(* message), a text that is no JSON ("text"), JSON that is no array        *)
(* ("object") or an array of objects; an object is given by the fields it  *)
(* has, each holding an integer.                                           *)
(***************************************************************************)
AIFields == {"track", "angle", "colorIndex"}

\* Objects the array may hold: two notes, a note lacking its angle, a note
\* lacking its colour, the empty object.
AIItems ==
    { [fields |-> AIFields, track |-> 0, angle |-> 90, colorIndex |-> 2],
      [fields |-> AIFields, track |-> 3, angle |-> 270, colorIndex |-> 6],
      [fields |-> {"track", "colorIndex"}, track |-> 1, angle |-> 0, colorIndex |-> 0],
      [fields |-> {"track", "angle"}, track |-> 2, angle |-> 180, colorIndex |-> 0],
      [fields |-> {}, track |-> 0, angle |-> 0, colorIndex |-> 0] }

AIArrays == UNION {[1 .. n -> AIItems] : n \in 0 .. MaxBatch}

AIResponses ==
    {[kind |-> k, items |-> <<>>] : k \in {"error", "errorAPI_KEY", "text", "object"}}
    \cup {[kind |-> "array", items |-> a] : a \in AIArrays}

\* generateComposition: JSON.parse, then the Array.isArray test; whatever is thrown
\* inside is caught and rethrown as one of two errors.
GenerateComposition(response) ==
    IF response.kind = "array"
    THEN [response |-> response, outcome |-> "returned", batch |-> response.items]
    ELSE IF response.kind = "errorAPI_KEY"
         THEN [response |-> response, outcome |-> "disabled", batch |-> <<>>]
         ELSE [response |-> response, outcome |-> "failed", batch |-> <<>>]

CallGenerateComposition(response) ==
    /\ composition' = GenerateComposition(response)
    /\ calls' = <<>>
    /\ UNCHANGED <<engine, frameDelta, animationFrame, build, isSustainMode, notes, nextId, isPlaying, rotationSpeed,
                   rotation, activeTracks, dragState, playingSustainedNotes,
                   lastPlayedAge, isRecording, audioCtx, activeSources, previewNode,
                   voices, effectsChain, recorder>>

(***************************************************************************)
(* Direct calls of the engine's operations, as a caller of the hook may    *)
(* make them in any order.                                                 *)
(***************************************************************************)
CallResumeAudio(made, resumed) ==
    /\ Commit(ResumeAudio(Engine, made, resumed))
    /\ UNCHANGED <<appVars, isRecording>>

CallStartSustainedNote(noteId) ==
    /\ Commit(StartSustainedNote(Engine, noteId))
    /\ UNCHANGED <<appVars, isRecording>>

CallStopSustainedNote(noteId) ==
    /\ Commit(StopSustainedNote(Engine, noteId))
    /\ UNCHANGED <<appVars, isRecording>>

CallPlayNote(made) ==
    /\ Commit(PlayNote(Engine, 0, made))
    /\ UNCHANGED <<appVars, isRecording>>

CallPlayShortNote(made) ==
    /\ Commit(PlayShortNote(Engine, made))
    /\ UNCHANGED <<appVars, isRecording>>

CallPlayPreviewNote(made) ==
    /\ Commit(PlayPreviewNote(Engine, made))
    /\ UNCHANGED <<appVars, isRecording>>

CallUpdateEffects(effects, made) ==
    /\ Commit(UpdateEffects(Engine, effects, made))
    /\ UNCHANGED <<appVars, isRecording>>

CallStartRecording(made) ==
    LET E == StartRecording(Engine, made)
    IN  /\ Commit(E)
        /\ isRecording' = E.isRec
        /\ UNCHANGED appVars

CallStopRecording ==
    LET E == StopRecording(Engine)
    IN  /\ Commit(E)
        /\ isRecording' = E.isRec
        /\ UNCHANGED appVars

\* The stop event of a recorder whose stop() was called.
RecorderStops ==
    /\ recorder.stopping > 0
    /\ LET E == OnStop(Engine)
       IN  /\ Commit(E)
           /\ isRecording' = E.isRec
    /\ UNCHANGED appVars

\* The audio clock passes the end of every scheduled ramp.
RampsEnd ==
    /\ audioCtx = "running"
    /\ \E p \in DOMAIN effectsChain.params : effectsChain.params[p].events > 0
    /\ effectsChain' = [effectsChain EXCEPT !.params =
                           [p \in DOMAIN @ |-> [@[p] EXCEPT !.events = 0]]]
    /\ calls' = <<>>
    /\ UNCHANGED <<appVars, isRecording, audioCtx, activeSources, previewNode, voices,
                   recorder>>

(***************************************************************************)
(* Specifications.                                                         *)
(***************************************************************************)
\* generateComposition has not been called.
NoComposition == [response |-> [kind |-> "none", items |-> <<>>], outcome |-> "none",
                  batch |-> <<>>]

\* The state after the first render: no session, nothing placed, paused.
InitEngine ==
    /\ isRecording = FALSE
    /\ audioCtx = "null"
    /\ activeSources = EmptyMap
    /\ previewNode = 0
    /\ voices = [h \in Handles |-> FreeVoice]
    /\ calls = <<>>
    /\ effectsChain = NoChain
    /\ recorder = NoRecorder
    /\ composition = NoComposition

InitApp ==
    /\ isSustainMode = FALSE
    /\ isPlaying = FALSE
    /\ rotation = 0
    /\ activeTracks = [t \in Tracks |-> TRUE]
    /\ dragState = NoDrag
    /\ playingSustainedNotes = {}
    /\ lastPlayedAge = EmptyMap
    /\ frameDelta = NominalFrameMs
    /\ animationFrame = [pending |-> 0, live |-> FALSE]

\* Note lists placed before playback starts: arcs on the grid of their track, one
\* of them through 0 degrees.
SustainLayouts ==
    { <<[id |-> 1, track |-> 0, angle |-> 3500, dur |-> 300, color |-> 1]>>,
      <<[id |-> 1, track |-> 0, angle |-> 200, dur |-> 200, color |-> 1],
        [id |-> 2, track |-> 1, angle |-> 300, dur |-> 450, color |-> 1]>> }

PointLayouts ==
    { <<[id |-> 1, track |-> 0, angle |-> 0, dur |-> 0, color |-> 1]>>,
      <<[id |-> 1, track |-> 0, angle |-> 3500, dur |-> 0, color |-> 1]>> }

ToggleTracks == {0}

\* The scheduler with sustained notes on the disc.
Init ==
    /\ InitEngine
    /\ InitApp
    /\ engine = "sustained"
    /\ build = "drag"
    /\ notes \in SustainLayouts
    /\ nextId = Len(notes) + 1
    /\ rotationSpeed \in Speeds

Next ==
    \/ \E dt \in FrameChoices, made \in MadeChoices : Tick(dt, made)
    \/ \E made \in MadeChoices, resumed \in ResumeChoices : HandlePlayPause(made, resumed)
    \/ \E made \in MadeChoices, resumed \in ResumeChoices : HandleRecord(made, resumed)
    \/ \E newSpeed \in Speeds : HandleSpeedChange(newSpeed)
    \/ \E trackIndex \in ToggleTracks : HandleToggleTrack(trackIndex)
    \/ AudioClock

Spec == Init /\ [][Next]_vars

\* The scheduler with point notes on the disc.
InitPoint ==
    /\ InitEngine
    /\ InitApp
    /\ engine = "oneshot"
    /\ build = "drag"
    /\ notes \in PointLayouts
    /\ nextId = Len(notes) + 1
    /\ rotationSpeed = 4

NextPoint ==
    \/ \E dt \in FrameChoices, made \in MadeChoices : Tick(dt, made)
    \/ \E made \in MadeChoices, resumed \in ResumeChoices : HandlePlayPause(made, resumed)
    \/ \E trackIndex \in ToggleTracks : HandleToggleTrack(trackIndex)
    \/ AudioClock

SpecPoint == InitPoint /\ [][NextPoint]_vars

\* The voice manager under arbitrary calls.
InitVoice ==
    /\ InitEngine
    /\ InitApp
    /\ engine = "sustained"
    /\ build = "drag"
    /\ notes = <<>>
    /\ nextId = 1
    /\ rotationSpeed = 20

NextVoice ==
    \/ \E made \in MadeChoices, resumed \in ResumeChoices : CallResumeAudio(made, resumed)
    \/ \E noteId \in NoteIds : CallStartSustainedNote(noteId)
    \/ \E noteId \in NoteIds : CallStopSustainedNote(noteId)
    \/ \E made \in MadeChoices : CallPlayNote(made)
    \/ \E made \in MadeChoices : CallPlayShortNote(made)
    \/ \E made \in MadeChoices : CallPlayPreviewNote(made)
    \/ AudioClock

SpecVoice == InitVoice /\ [][NextVoice]_vars

\* The session, its graph and its voices under arbitrary calls of one hook.
InitSession ==
    /\ InitEngine
    /\ InitApp
    /\ engine \in Engines
    /\ build = "drag"
    /\ notes = <<>>
    /\ nextId = 1
    /\ rotationSpeed = 20

NextSession ==
    \/ \E made \in MadeChoices, resumed \in ResumeChoices : CallResumeAudio(made, resumed)
    \/ \E effects \in SessionConfigs, made \in MadeChoices : CallUpdateEffects(effects, made)
    \/ engine = "oneshot" /\ \E made \in MadeChoices : CallPlayNote(made)
    \/ engine = "layered" /\ \E made \in MadeChoices : CallPlayShortNote(made)
    \/ engine # "sustained" /\ \E made \in MadeChoices : CallPlayPreviewNote(made)
    \/ RampsEnd
    \/ AudioClock

SpecSession == InitSession /\ [][NextSession]_vars

\* The recorder under arbitrary calls; the browser delivers the stop event of a
\* recorder whose stop() was called.
NextRecord ==
    \/ \E made \in MadeChoices, resumed \in ResumeChoices : CallResumeAudio(made, resumed)
    \/ \E made \in MadeChoices : CallStartRecording(made)
    \/ CallStopRecording
    \/ RecorderStops

SpecRecord == InitSession /\ [][NextRecord]_vars /\ WF_vars(RecorderStops)

\* The AI composer answering with arbitrary responses.
NextCompose == \E response \in AIResponses : CallGenerateComposition(response)

SpecCompose == InitSession /\ [][NextCompose]_vars

\* The effects under arbitrary configurations.
NextEffects ==
    \/ \E made \in MadeChoices, resumed \in ResumeChoices : CallResumeAudio(made, resumed)
    \/ \E effects \in EffectConfigs, made \in MadeChoices : CallUpdateEffects(effects, made)
    \/ RampsEnd

SpecEffects == InitSession /\ [][NextEffects]_vars

\* The hooks whose configuration has the three sliders, under arbitrary settings
\* of them.
InitBuffers ==
    /\ InitEngine
    /\ InitApp
    /\ engine \in {"layered", "oneshot"}
    /\ build = "drag"
    /\ notes = <<>>
    /\ nextId = 1
    /\ rotationSpeed = 20

NextBuffers ==
    \/ \E made \in MadeChoices, resumed \in ResumeChoices : CallResumeAudio(made, resumed)
    \/ \E effects \in BufferConfigs, made \in MadeChoices : CallUpdateEffects(effects, made)
    \/ RampsEnd

SpecBuffers == InitBuffers /\ [][NextBuffers]_vars

\* The scheduler with sustained notes on the disc while the controls that replace
\* the animate callback are used: clear-all, the speed slider, a track's switch.
NextClear ==
    \/ Tick(NominalFrameMs, "running")
    \/ HandlePlayPause("running", TRUE)
    \/ HandleClear
    \/ \E newSpeed \in Speeds : HandleSpeedChange(newSpeed)
    \/ \E trackIndex \in ToggleTracks : HandleToggleTrack(trackIndex)
    \/ AudioClock

SpecClear == Init /\ [][NextClear]_vars

\* The record button pressed again while earlier presses still wait for resumeAudio.
NextCapture ==
    \/ \E made \in MadeChoices, resumed \in ResumeChoices :
          HandleRecordBegins(made, resumed)
    \/ \E made \in MadeChoices : HandleRecordResumes(made)

SpecCapture == InitSession /\ [][NextCapture]_vars

\* Note placement on the paused disc, in either App.
Builds == {"drag", "click"}

InitPlace ==
    /\ InitEngine
    /\ InitApp
    /\ engine = "sustained"
    /\ build \in Builds
    /\ notes = <<>>
    /\ nextId = 1
    /\ rotationSpeed = 20

\* The mouse button goes down only while it is up: a press during an open drag
\* would restart the drag, which reaches no note list that a release and a press do not.
NextPlace ==
    \/ \E track \in MouseTracks, angle \in MouseAngles, made \in MadeChoices,
             resumed \in ResumeChoices :
          ~dragState.on /\ HandleMouseDown(track, angle, made, resumed)
    \/ \E track \in MouseTracks, angle \in MouseAngles : HandleMouseMove(track, angle)
    \/ HandleMouseUp
    \/ \E track \in MouseTracks, angle \in ClickAngles, made \in MadeChoices,
             resumed \in ResumeChoices :
          HandleDiscClick(track, angle, made, resumed)
    \/ HandleToggleSustainMode
    \/ HandleClear

SpecPlace == InitPlace /\ [][NextPlace]_vars

InitSlots ==
    /\ InitPlace
    /\ build = "click"

\* Clicks on every slot of the outermost track of the App with the sustain mode, so
\* that a note can be extended all the way round; durations stop at MaxTurns turns.
NextSlots ==
    \/ \E slot \in 0 .. ((FULL \div SnapAngle(TRACK_COUNT - 1)) - 1),
             made \in MadeChoices, resumed \in ResumeChoices :
          /\ HandleDiscClick(TRACK_COUNT - 1, slot * SnapAngle(TRACK_COUNT - 1), made, resumed)
          /\ \A i \in 1 .. Len(notes') : notes'[i].dur <= MaxTurns * FULL
    \/ HandleToggleSustainMode

SpecSlots == InitSlots /\ [][NextSlots]_vars

\* Clicks on the paused disc of the App of src/src/App.tsx, on every track.
InitTap ==
    /\ InitEngine
    /\ InitApp
    /\ engine = "oneshot"
    /\ build = "tap"
    /\ notes = <<>>
    /\ nextId = 1
    /\ rotationSpeed = 20

NextTap ==
    \E track \in Tracks, angle \in ClickAngles, made \in MadeChoices,
       resumed \in ResumeChoices :
        HandleAddOrRemoveNote(track, angle, made, resumed)

SpecTap == InitTap /\ [][NextTap]_vars

\* The disc pressed, dragged and released while it plays and while it is paused, in
\* the three Apps that place notes.
\* Where the pointer goes down: two slots of the outermost track.
Presses == {<<0, 0>>, <<0, 1200>>}

InitGuard ==
    /\ InitEngine
    /\ InitApp
    /\ build \in {"drag", "click", "tap"}
    /\ engine = IF build = "tap" THEN "oneshot" ELSE "sustained"
    /\ notes = <<>>
    /\ nextId = 1
    /\ rotationSpeed = 4

\* The browser keeps the session suspended and frames come at the nominal rate: the
\* handlers run all the same, and what their guards do depends on neither.
NextGuard ==
    \/ Tick(NominalFrameMs, "suspended")
    \/ HandlePlayPause("suspended", FALSE)
    \/ \E p \in Presses :
          ~dragState.on /\ HandleMouseDown(p[1], p[2], "suspended", FALSE)
    \/ \E p \in Presses : HandleMouseMove(p[1], p[2])
    \/ HandleMouseUp
    \/ \E p \in Presses :
          HandleDiscClick(p[1], p[2], "suspended", FALSE)
    \/ \E p \in Presses :
          HandleAddOrRemoveNote(p[1], p[2], "suspended", FALSE)
    \/ HandleClear

SpecGuard == InitGuard /\ [][NextGuard]_vars

\* The crossing tests of the three Apps with point notes, under steps of any size.
Steps == {30, 890, 900, 1000, 2650, 3570}

InitCross ==
    /\ InitEngine
    /\ InitApp
    /\ engine = "oneshot"
    /\ build \in {"drag", "span", "tap"}
    /\ notes \in PointLayouts
    /\ nextId = Len(notes) + 1
    /\ rotationSpeed = 4

NextCross ==
    \/ \E step \in Steps : TickBy(step, "running")
    \/ HandlePlayPause("running", TRUE)
    \/ AudioClock

SpecCross == InitCross /\ [][NextCross]_vars

\* The scheduler of the Apps that compute a frequency, with notes of two colours on
\* the outermost and the innermost track.
ToneLayouts ==
    { <<[id |-> 1, track |-> 0, angle |-> 0, dur |-> 100, color |-> 1],
        [id |-> 2, track |-> 3, angle |-> 300, dur |-> 300, color |-> 6]>> }

InitTone ==
    /\ InitEngine
    /\ InitApp
    /\ build \in {"drag", "tap", "tapmode"}
    /\ engine = IF build = "drag" THEN "sustained" ELSE "oneshot"
    /\ notes \in ToneLayouts
    /\ nextId = Len(notes) + 1
    /\ rotationSpeed = 4

NextTone ==
    \/ Tick(NominalFrameMs, "running")
    \/ HandlePlayPause("running", TRUE)
    \/ AudioClock

SpecTone == InitTone /\ [][NextTone]_vars

(***************************************************************************)
(* Properties of the scheduler (specification Spec).                       *)
(***************************************************************************)
\* The playhead lies in the span [visualStart, visualStart + durationAngle) of the
\* note when the disc stands at rot: its clockwise distance from the span's start
\* is below the span's length.
InSpan(note, rot) == ((PlayheadPosition - note.angle - rot) % FULL) < note.dur

Registered(id) == id \in DOMAIN activeSources

TickStep == rotation' # rotation

\* C1: after every scheduler tick, every sustained note on an enabled track has a
\* voice registered under its id exactly when the playhead lies in its span.
C1_VoiceIffInSpan ==
    [][TickStep =>
        \A i \in 1 .. Len(notes) :
            (notes[i].dur > 0 /\ activeTracks[notes[i].track]) =>
                ((notes[i].id \in DOMAIN activeSources') <=> InSpan(notes[i], rotation'))]_vars

\* C2: a step that takes isPlaying from true to false calls stopSustainedNote for
\* every id of the playing set and leaves the playing set and the voice registry
\* empty, every sustained voice having its stop scheduled, at any rotation.
C2_PauseStopsAll ==
    [][(isPlaying /\ ~isPlaying') =>
        /\ playingSustainedNotes' = {}
        /\ DOMAIN activeSources' = {}
        /\ \A id \in playingSustainedNotes :
              \E k \in 1 .. Len(calls') :
                  calls'[k].op = "stopSustainedNote" /\ calls'[k].id = id
        /\ \A h \in Handles : voices'[h].kind = "sustained" => voices'[h].stop # "no"]_vars

\* A pause has just stopped a sounding voice away from the rotation's origin.
C2_Witness ==
    /\ ~isPlaying
    /\ rotation # 0
    /\ playingSustainedNotes = {}
    /\ DOMAIN activeSources = {}
    /\ \E k \in 1 .. Len(calls) : calls[k].op = "stopSustainedNote" /\ ~calls[k].early
    /\ \E h \in Handles : voices[h].kind = "sustained" /\ voices[h].stop = "scheduled"

\* C3: after a scheduler tick no sustained note on a disabled track has a
\* registered voice.
C3_DisabledTrackSilent ==
    [][TickStep =>
        \A i \in 1 .. Len(notes) :
            (notes[i].dur > 0 /\ ~activeTracks[notes[i].track]) =>
                notes[i].id \notin DOMAIN activeSources']_vars

(***************************************************************************)
(* Properties of the point-note trigger (specification SpecPoint).         *)
(***************************************************************************)
\* A rotation step of inc tenths starting at prevRotation carries the note's visual
\* angle onto or over the playhead exactly once.
CrossesOnce(note, prevRotation, inc) ==
    Cardinality({k \in 1 .. inc : (note.angle + prevRotation + k) % FULL = PlayheadPosition}) = 1

\* The number of playNote calls the last handler made for the note id.
PlayNoteCalls(log, id) ==
    Cardinality({k \in 1 .. Len(log) : log[k].op = "playNote" /\ log[k].id = id})

\* The note was triggered and the wall clock has moved on by `ms` at most / less than that.
PlayedWithin(id, ms) == id \in DOMAIN lastPlayedAge /\ lastPlayedAge[id] <= ms

PlayedLessThan(id, ms) == id \in DOMAIN lastPlayedAge /\ lastPlayedAge[id] < ms

LiveVoices(id) ==
    {h \in Handles : voices[h].kind = "sustained" /\ voices[h].note = id
                     /\ voices[h].stop = "no"}

\* The sustained voices of a note id that are fading out towards their scheduled stop.
StoppingVoices(id) ==
    {h \in Handles : voices[h].kind = "sustained" /\ voices[h].note = id
                     /\ voices[h].stop = "scheduled"}

\* The last step was the single engine call op(id), which returned early or not.
LastCall(op, id, early) == calls = <<[op |-> op, id |-> id, early |-> early]>>

\* C5: whatever startSustainedNote and stopSustainedNote calls were made, at most
\* one sustained voice per note id is started and not yet scheduled to stop.
C5_OneLiveVoicePerId == \A id \in NoteIds : Cardinality(LiveVoices(id)) <= 1

\* A note id was stopped and started again: it has a live voice next to a fading one.
C5_Witness == \E id \in NoteIds : LiveVoices(id) # {} /\ StoppingVoices(id) # {}

\* C6: startSustainedNote for an id that has a registered voice, and
\* stopSustainedNote for an id that has none, leave the session, the registry and
\* every voice as they were.
C6_DuplicateCallsAreNoOps ==
    [][\A id \in NoteIds :
          (\/ /\ Registered(id)
              /\ \E e \in BOOLEAN : LastCall("startSustainedNote", id, e)'
           \/ /\ ~Registered(id)
              /\ \E e \in BOOLEAN : LastCall("stopSustainedNote", id, e)') =>
              UNCHANGED <<audioCtx, activeSources, previewNode, voices>>]_vars

\* startSustainedNote has just returned at its guard on a running session, the id
\* having its voice.
C6_Witness ==
    \E id \in NoteIds :
        /\ LastCall("startSustainedNote", id, TRUE)
        /\ audioCtx = "running"
        /\ Registered(id)
        /\ LiveVoices(id) = {activeSources[id]}

\* C7: stopSustainedNote(id) of a registered id deletes the registration and
\* schedules the voice's stop in the same call; a startSustainedNote(id) that
\* goes through registers a voice that did not exist before, its gain at 0, and
\* touches no other voice.
C7_StopUnregistersStartIsFresh ==
    [][\A id \in NoteIds :
          /\ (Registered(id) /\ \E e \in BOOLEAN : LastCall("stopSustainedNote", id, e)') =>
                /\ id \notin DOMAIN activeSources'
                /\ voices'[activeSources[id]].kind = "sustained"
                /\ voices'[activeSources[id]].stop = "scheduled"
          /\ LastCall("startSustainedNote", id, FALSE)' =>
                /\ id \in DOMAIN activeSources'
                /\ voices[activeSources'[id]].kind = "free"
                /\ voices'[activeSources'[id]].value = 0
                /\ voices'[activeSources'[id]].stop = "no"
                /\ \A g \in Handles \ {activeSources'[id]} : voices'[g] = voices[g]]_vars

\* startSustainedNote(id) has just gone through while the voice stopped before it
\* is still fading out.
C7_Witness ==
    \E id \in NoteIds :
        /\ LastCall("startSustainedNote", id, FALSE)
        /\ Registered(id)
        /\ voices[activeSources[id]].value = 0
        /\ \E g \in StoppingVoices(id) :
              g # activeSources[id] /\ voices[g].target = FADE_FLOOR

\* The calls that produce sound.
SoundCalls == {"playNote", "playShortNote", "startSustainedNote", "playPreviewNote"}

\* C10: a sound-producing call made while the session is absent or not running
\* creates no voice, schedules nothing and registers nothing.
C10_DroppedUnlessRunning ==
    [][(/\ audioCtx # "running"
        /\ Len(calls') = 1
        /\ calls'[1].op \in SoundCalls) =>
            UNCHANGED <<activeSources, previewNode, voices>>]_vars

(***************************************************************************)
(* Properties of note placement (specification SpecPlace).                 *)
(***************************************************************************)
\* The clockwise distance from the start of note a to the start of note b.
Offset(a, b) == (b.angle - a.angle) % FULL

\* Two notes of one track overlap when one starts inside the span of the other,
\* the span's end excluded; two point notes when they stand at the same angle.
Overlap(a, b) ==
    /\ a.track = b.track
    /\ \/ Offset(a, b) < (IF a.dur > 0 THEN a.dur ELSE 1)
       \/ Offset(b, a) < (IF b.dur > 0 THEN b.dur ELSE 1)

\* C8: no two notes on the same track have overlapping spans.
C8_NoOverlap ==
    \A i \in 1 .. Len(notes), j \in 1 .. Len(notes) :
        i < j => ~Overlap(notes[i], notes[j])

\* C9: the angle of every note is a multiple of the snap angle of its track.
C9_AnglesOnGrid ==
    \A i \in 1 .. Len(notes) : JsMod(notes[i].angle, SnapAngle(notes[i].track)) = 0

\* A drag left an arc on the 22.5 degree track that starts where the pointer never was.
C9_Witness ==
    /\ build = "drag"
    /\ \E i \in 1 .. Len(notes) :
          /\ notes[i].track = 2
          /\ notes[i].dur > 0
          /\ notes[i].angle \notin MouseAngles

(***************************************************************************)
(* Properties of the session, the recorder and the effects (specifications *)
(* SpecSession and SpecEffects).                                           *)
(***************************************************************************)
\* The handler logged the failure of the session's constructor.
Surfaced(log) == \E k \in 1 .. Len(log) : log[k].op = "console.error"

\* C11: once the constructor of the session has thrown and an operation of the
\* engine has logged the failure, the operation that follows does not log it again.
C11_FailureSurfacedOnce ==
    [][(audioCtx = "null" /\ Surfaced(calls)) => ~Surfaced(calls')]_vars

\* C12: startRecording called on a session that exists but is not running creates
\* and starts no recorder, and isRecording stays as it was (false).
C12_StartDroppedUnlessRunning ==
    [][(/\ audioCtx = "suspended"
        /\ Len(calls') = 1
        /\ calls'[1].op = "startRecording") =>
            UNCHANGED <<recorder, isRecording>>]_vars

\* The step is a call of stopRecording.
StopRecordingCalled == Len(calls') = 1 /\ calls'[1].op = "stopRecording"

\* C13: the promise of stopRecording never rejects.  Called while a capture is
\* active it stays pending until the recorder's stop event, which resolves it to a
\* non-empty blob URL; called with no active capture it resolves at once to ''.
\* isRecording is false whenever a promise has just resolved, and every pending
\* promise is resolved eventually.
C13_StopAlwaysResolves ==
    /\ [][/\ recorder'.settled # "rejected"
          /\ (StopRecordingCalled /\ recorder.ref = "recording") =>
                 /\ recorder'.stopping = recorder.stopping + 1
                 /\ recorder'.settled = recorder.settled
                 /\ recorder'.url = recorder.url
          /\ (StopRecordingCalled /\ recorder.ref # "recording") =>
                 /\ recorder'.stopping = recorder.stopping
                 /\ recorder'.settled = "resolved"
                 /\ recorder'.url = ""
                 /\ ~isRecording'
          /\ recorder'.stopping < recorder.stopping =>
                 /\ recorder'.settled = "resolved"
                 /\ recorder'.url = "blob:"
                 /\ ~isRecording'
          /\ (recorder'.url = "blob:" /\ recorder.url # "blob:") =>
                 recorder'.stopping < recorder.stopping]_vars
    /\ (recorder.stopping > 0) ~>
           (recorder.settled = "resolved" /\ recorder.url = "blob:" /\ ~isRecording)

\* A capture was stopped and its stop event has resolved the promise.
C13_Witness ==
    /\ recorder.ref = "inactive"
    /\ recorder.stopping = 0
    /\ recorder.settled = "resolved"
    /\ recorder.url = "blob:"
    /\ ~isRecording

\* The object has the shape {track, angle, colorIndex}.
HasNoteShape(item) == item.fields = AIFields

\* C14: a batch generateComposition returns for merging is an array whose every
\* item has the shape {track, angle, colorIndex}.
C14_ReturnedBatchIsValid ==
    composition.outcome = "returned" =>
        \A i \in 1 .. Len(composition.batch) : HasNoteShape(composition.batch[i])

\* C15: the signal graph is built at most once per session: once it stands, no
\* operation of the engine runs setupAudioGraph's body again, adds or removes a
\* connection, or starts another oscillator of the graph.
C15_GraphBuiltOnce ==
    [][/\ effectsChain'.built <= 1
       /\ effectsChain.built >= 1 =>
              /\ effectsChain'.built = effectsChain.built
              /\ effectsChain'.edges = effectsChain.edges
              /\ effectsChain'.lfos = effectsChain.lfos]_vars

\* The graph stands and playPreviewNote has gone through getAudioContext a second
\* time: the preview of the first call is fading.
C15_Witness ==
    /\ effectsChain.built = 1
    /\ \E h \in Handles : voices[h].kind = "oldpreview"

\* C16: whatever updateEffects was called with, the gain of the dry path, and the
\* value every ramp scheduled on it ends at, is 1.0.
C16_DryStaysUnity ==
    effectsChain.built >= 1 => effectsChain.params["dry"].target = 10000

\* The step is a call of updateEffects that passed its guard.
EffectsApplied ==
    Len(calls') = 1 /\ calls'[1].op = "updateEffects" /\ ~calls'[1].early

\* The effects with a switch, by hook, and the wet gain of each.
SwitchedEffects ==
    IF engine = "layered"
    THEN {"reverb", "delay", "flanger", "bitcrusher", "distortion"}
    ELSE IF engine = "oneshot"
         THEN {"reverb", "delay", "distortion", "phaser", "flanger"}
         ELSE {}

WetOf ==
    [reverb |-> "reverbWet", delay |-> "delayWet", flanger |-> "flangerWet",
     bitcrusher |-> "bitcrusherWet", distortion |-> "distortionWet",
     phaser |-> "phaserWet"]

\* C17: a call of updateEffects on the standing graph schedules, for every effect
\* whose `on` switch is off in the configuration, a ramp of that effect's wet gain
\* to 0, and leaves the connections of the graph as they were.
C17_OffRampsWetToZero ==
    [][(effectsChain.built >= 1 /\ EffectsApplied) =>
          /\ effectsChain'.edges = effectsChain.edges
          /\ \A e \in SwitchedEffects :
                ~effectsChain'.applied[1][e].on =>
                    /\ effectsChain'.params[WetOf[e]].target = 0
                    /\ effectsChain'.params[WetOf[e]].events
                           = effectsChain.params[WetOf[e]].events + 1]_vars

\* updateEffects has just applied a configuration with the reverb switched off and
\* the delay on, in a hook whose effects have switches.
C17_Witness ==
    /\ engine \in {"layered", "oneshot"}
    /\ Len(calls) = 1 /\ calls[1].op = "updateEffects" /\ ~calls[1].early
    /\ ~effectsChain.applied[1].reverb.on
    /\ effectsChain.applied[1].delay.on
    /\ effectsChain.params["reverbWet"].target = 0
    /\ effectsChain.params["delayWet"].target = 5000

\* C18: no parameter of the graph has more than one scheduled ramp ahead of the
\* audio clock, however many times updateEffects was called.
C18_OnePendingRamp ==
    \A p \in DOMAIN effectsChain.params : effectsChain.params[p].events <= 1

\* What the graph's parameters end at, and what is installed in its nodes.
GraphState(fx) ==
    [targets |-> [p \in DOMAIN fx.params |-> fx.params[p].target],
     impulse |-> fx.impulse,
     distortionCurve |-> fx.distortionCurve,
     bitcrusherCurve |-> fx.bitcrusherCurve]

\* updateEffects has just applied the configuration held in effectsChain.applied.
JustApplied ==
    /\ effectsChain.built >= 1
    /\ effectsChain.applied # <<>>
    /\ Len(calls) = 1 /\ calls[1].op = "updateEffects" /\ ~calls[1].early

\* C19: right after updateEffects has applied a configuration, applying the same
\* configuration again leaves every target value, both curves and the impulse
\* response as they are.
C19_SameConfigTwice ==
    JustApplied =>
        GraphState(ApplyEffects(effectsChain, effectsChain.applied[1]))
            = GraphState(effectsChain)

\* The hook of src/unnamed/part_003 has applied configurations of one reverb type
\* twice since the last ramp ended: the impulse response was regenerated once.
C19_Witness ==
    /\ JustApplied
    /\ engine = "sustained"
    /\ effectsChain.impulse = 2
    /\ effectsChain.params["reverbWet"].events = 2

\* The voices playPreviewNote created that it has not told to fade out.
ActivePreviews == {h \in Handles : voices[h].kind = "preview"}

FadingPreviews == {h \in Handles : voices[h].kind = "oldpreview"}

\* C20: at most one preview voice is active, the one previewNodeRef holds; every
\* preview replaced by a later call has its gain ramped to 0 and its oscillators
\* scheduled to stop.
C20_OneActivePreview ==
    /\ Cardinality(ActivePreviews) <= 1
    /\ \A h \in ActivePreviews : h = previewNode
    /\ \A h \in FadingPreviews :
          /\ h # previewNode
          /\ voices[h].target = 0
          /\ voices[h].stop = "scheduled"

\* playPreviewNote was called while an earlier preview still sounded.
C20_Witness ==
    /\ Cardinality(ActivePreviews) = 1
    /\ FadingPreviews # {}

(***************************************************************************)
(* Properties of the rotation and of the track switches (specification     *)
(* Spec).                                                                  *)
(***************************************************************************)
\* C23: a step that toggles a track's enabled flag leaves the rotation angle, the
\* rotation speed (and with it the step per tick) and the note list as they were.
C23_ToggleLeavesDiscAlone ==
    [][activeTracks' # activeTracks =>
          /\ rotation' = rotation
          /\ rotationSpeed' = rotationSpeed
          /\ DegreesPerFrame(rotationSpeed') = DegreesPerFrame(rotationSpeed)
          /\ notes' = notes]_vars

\* A track was switched off while the disc turns with a note of that track on it.
C23_Witness ==
    /\ isPlaying
    /\ rotation # 0
    /\ calls = <<>>
    /\ \E i \in 1 .. Len(notes) : ~activeTracks[notes[i].track]

\* C24: the rotation angle lies in [0, 360) in every reachable state, and every
\* tick takes it to (rotation + step) mod 360, whatever the rotation speed.
C24_RotationWraps ==
    /\ 0 <= rotation /\ rotation < FULL
    /\ [][/\ 0 <= rotation' /\ rotation' < FULL
          /\ TickStep =>
                rotation' = (rotation + DegreesPerFrame(rotationSpeed)) % FULL]_vars

\* The disc has gone through 0 degrees: a voice exists, which no tick creates
\* before the rotation has passed 15 degrees, and the rotation is below that again.
C24_Witness ==
    /\ isPlaying
    /\ 0 < rotation /\ rotation < 150
    /\ \E h \in Handles : voices[h].kind = "sustained"

\* The rotation of (360 / rotationPeriodSeconds) * ms milliseconds and the advance
\* from prevRotation to newRotation, both multiplied by the milliseconds of a
\* revolution (speed * 500), so that no division is needed.
TurnedIn(ms) == FULL * ms

Advance(prevRotation, newRotation, speed) ==
    ((newRotation - prevRotation) % FULL) * speed * 500

\* C28: every tick advances the rotation by (360 / rotationPeriodSeconds) times the
\* time elapsed since the previous tick; the elapsed time counts whole
\* milliseconds, so the advance lies between that of frameDelta and of
\* frameDelta + 1 milliseconds.
C28_StepFollowsFrameDelta ==
    [][TickStep =>
          /\ TurnedIn(frameDelta) <= Advance(rotation, rotation', rotationSpeed)
          /\ Advance(rotation, rotation', rotationSpeed) < TurnedIn(frameDelta + 1)]_vars

(***************************************************************************)
(* Placement while the disc plays (specification SpecGuard).               *)
(***************************************************************************)
\* The release of a drag: handleMouseUp, which has no test of isPlaying.
DragReleased == dragState.on /\ ~dragState'.on

CallsOf(log, op, id) ==
    Cardinality({k \in 1 .. Len(log) : log[k].op = op /\ log[k].id = id})

\* C26: in uninterrupted playback (the playing set telling where the playhead was
\* after the tick before), a tick calls startSustainedNote for a sustained note of an
\* enabled track once if the playhead enters the note's span on it and not
\* otherwise, stopSustainedNote once if the playhead leaves the span on it and not
\* otherwise, and the playing set follows: one start and then one stop per pass,
\* nothing on the ticks between.
C26_OneStartOneStopPerPass ==
    [][TickStep =>
        \A i \in 1 .. Len(notes) :
            LET note == notes[i]
                wasIn == InSpan(note, rotation)
                isIn == InSpan(note, rotation')
            IN  (/\ note.dur > 0
                 /\ activeTracks[note.track]
                 /\ (note.id \in playingSustainedNotes) = wasIn) =>
                    /\ CallsOf(calls', "startSustainedNote", note.id)
                          = IF ~wasIn /\ isIn THEN 1 ELSE 0
                    /\ CallsOf(calls', "stopSustainedNote", note.id)
                          = IF wasIn /\ ~isIn THEN 1 ELSE 0
                    /\ (note.id \in playingSustainedNotes') = isIn]_vars

\* The tick on which the playhead left the span of a note that was sounding.
C26_Witness ==
    /\ isPlaying
    /\ audioCtx = "running"
    /\ \E i \in 1 .. Len(notes) :
          /\ activeTracks[notes[i].track]
          /\ ~InSpan(notes[i], rotation)
          /\ notes[i].id \notin playingSustainedNotes
          /\ \E k \in 1 .. Len(calls) :
                /\ calls[k].op = "stopSustainedNote"
                /\ calls[k].id = notes[i].id
                /\ ~calls[k].early

(***************************************************************************)
(* The crossing test under arbitrary steps (specification SpecCross).      *)
(***************************************************************************)
\* The playhead lies in the interval (prev, new] the note's visual angle sweeps
\* when the disc turns from prevRotation to newRotation.
Swept(note, prevRotation, newRotation) ==
    \E k \in 1 .. ((newRotation - prevRotation) % FULL) :
        (note.angle + prevRotation + k) % FULL = Playhead

C29_FrequencyDoublesPerTrack ==
    [][TickStep =>
        \A k \in 1 .. Len(calls') :
            calls'[k].op \in {"playNote", "startSustainedNote"} =>
                \E i \in 1 .. Len(notes) :
                    /\ notes[i].id = calls'[k].id
                    /\ calls'[k].freq = NOTE_FREQ[notes[i].color] * 2 ^ notes[i].track]_vars

(***************************************************************************)
(* Precomputed buffers (specification SpecEffects).                        *)
(***************************************************************************)
\* The buffers whose defining parameter differs between two configurations: drive
\* or type for the distortion curve, bit depth for the bitcrusher curve, reverb
\* type (which fixes the decay) for the impulse response.
Redefined(prev, new) ==
    (IF prev.distortion.drive # new.distortion.drive
        \/ prev.distortionType # new.distortionType
     THEN {"distortionCurve"} ELSE {})
    \cup (IF prev.bitcrusher.bitDepth # new.bitcrusher.bitDepth
          THEN {"bitcrusherCurve"} ELSE {})
    \cup (IF prev.reverbType # new.reverbType THEN {"impulse"} ELSE {})

\* C30: a call of updateEffects right after one that applied a configuration
\* installs only buffers whose defining parameter differs from that configuration.
C30_BuffersOnlyOnChange ==
    [][(JustApplied /\ EffectsApplied) =>
          calls'[1].installed
              \subseteq Redefined(effectsChain.applied[1], effectsChain'.applied[1])]_vars

(***************************************************************************)
(* The wiring and the life of voices (specifications SpecVoice, SpecSession). *)
(***************************************************************************)
\* C21: every voice a play operation created (one-shot, sustained, preview) is
\* connected to the input node of the graph and to nothing else, and in the graph
\* only the output node feeds the destination and the recording tap.
C21_VoicesFeedOnlyInput ==
    /\ \A h \in Handles : voices[h].kind # "free" => voices[h].out = {"input"}
    /\ \A e \in effectsChain.edges :
          e[2] \in {"destination", "streamDestination"} => e[1] = "output"

\* A one-shot, a sustained and a preview voice sound together on the built graph.
C21_Witness ==
    /\ <<"output", "destination">> \in effectsChain.edges
    /\ \A k \in {"oneshot", "sustained", "preview"} :
          \E h \in Handles : voices[h].kind = k

\* A step of the audio clock: voices change and no handler ran.
ClockStep == voices' # voices /\ calls' = <<>>

\* C22: every source of a one-shot voice has its stop scheduled from creation at
\* one of the fixed offsets (50 ms for the noise burst, 1805 ms for the oscillators
\* and the vibrato LFO of playShortNote, 500 ms for playNote), and once the audio
\* clock has passed them nothing of the voice is left, no call being needed.
C22_OneShotsStopThemselves ==
    /\ \A h \in Handles :
          voices[h].kind = "oneshot" =>
              /\ voices[h].stop = "scheduled"
              /\ \A x \in DOMAIN voices[h].sources :
                    voices[h].sources[x] \in {50, 500, 1805}
    /\ [][ClockStep =>
             \A h \in Handles : voices[h].kind = "oneshot" => voices'[h] = FreeVoice]_vars

\* A pluck with its own vibrato LFO is sounding.
C22_Witness ==
    /\ engine = "layered"
    /\ \E h \in Handles :
          /\ voices[h].kind = "oneshot"
          /\ DOMAIN voices[h].sources
                = {"noise", "subOsc", "mainOsc", "harmonics", "vibratoLFO"}

(***************************************************************************)
(* Buffers and ramps of updateEffects (specifications SpecBuffers,         *)
(* SpecEffects).                                                           *)
(***************************************************************************)
\* The buffers whose defining slider differs between two configurations.
Retuned(prev, new) ==
    (IF prev.reverb.decay # new.reverb.decay THEN {"impulse"} ELSE {})
    \cup (IF prev.distortion.drive # new.distortion.drive
          THEN {"distortionCurve"} ELSE {})
    \cup (IF engine = "layered" /\ prev.bitcrusher.bitDepth # new.bitcrusher.bitDepth
          THEN {"bitcrusherCurve"} ELSE {})

\* C31: a call of updateEffects right after one that applied a configuration
\* installs, for every buffer-defining slider that differs from that configuration
\* (reverb decay, distortion drive, bitcrusher bit depth), a newly generated buffer,
\* and the curves installed after the call are those of the new drive and bit depth.
C31_BuffersFollowConfig ==
    [][(JustApplied /\ EffectsApplied) =>
          LET prev == effectsChain.applied[1]
              new == effectsChain'.applied[1]
          IN  /\ Retuned(prev, new) \subseteq calls'[1].installed
              /\ "distortionCurve" \in Retuned(prev, new) =>
                     effectsChain'.distortionCurve = <<"drive", new.distortion.drive>>
              /\ "bitcrusherCurve" \in Retuned(prev, new) =>
                     effectsChain'.bitcrusherCurve = new.bitcrusher.bitDepth]_vars

\* The effect is switched off in the configuration the hook holds and on in the one
\* the call brings.
SwitchedOn(e) ==
    /\ effectsChain.applied # <<>>
    /\ ~effectsChain.applied[1][e].on
    /\ effectsChain'.applied[1][e].on

\* C32: a call of updateEffects that switches an effect on schedules one ramp on
\* that effect's wet gain, ending at the target (0.7 for the flanger of the hook
\* with the bitcrusher), and the gain does not jump at the call.
C32_SwitchOnRampsWithoutStep ==
    [][(effectsChain.built >= 1 /\ EffectsApplied) =>
          \A e \in SwitchedEffects :
              SwitchedOn(e) =>
                  /\ WetOf[e] \notin calls'[1].stepped
                  /\ effectsChain'.params[WetOf[e]].events
                         = effectsChain.params[WetOf[e]].events + 1
                  /\ effectsChain'.params[WetOf[e]].target > 0
                  /\ (engine = "layered" /\ e = "flanger") =>
                         effectsChain'.params["flangerWet"].target = 7000]_vars

(***************************************************************************)
(* The scheduler's playing set and the voice registry (specifications Spec, *)
(* SpecClear).                                                             *)
(***************************************************************************)
\* C33: after every scheduler tick and after every pause, the ids in
\* playingSustainedNotesRef are the ids registered in activeSourcesRef.
C33_PlayingSetIsRegistry ==
    [][(TickStep \/ (isPlaying /\ ~isPlaying')) =>
          playingSustainedNotes' = DOMAIN activeSources']_vars

\* C34: after every scheduler tick, every id registered in activeSourcesRef is the id
\* of a note of the note list; a voice left by a note that clear-all removed is
\* stopped and unregistered by the next tick at the latest.
C34_RegisteredNotesExist ==
    [][TickStep =>
          \A id \in DOMAIN activeSources' :
              \E i \in 1 .. Len(notes') : notes'[i].id = id]_vars

(***************************************************************************)
(* Captures under interleaved presses of the record button (specification  *)
(* SpecCapture).                                                           *)
(***************************************************************************)
\* C35: startRecording never replaces a recorder that is still recording, and
\* isRecording is true whenever some recorder records.
C35_OneCapture ==
    /\ recorder.lost = 0
    /\ (recorder.ref = "recording" \/ recorder.lost > 0) => isRecording

LastPassed(log) ==
    LET at == {k \in 1 .. Len(log) : log[k].op = "updateEffects"}
    IN  IF at = {} THEN <<>> ELSE <<log[CHOOSE k \in at : \A j \in at : j <= k].effects>>

\* Every parameter updateEffects ramps ends at the value the configuration gives it.
Follows(fx, effects) ==
    \A i \in DOMAIN Ramps(effects) :
        fx.params[Ramps(effects)[i][1]].target = Ramps(effects)[i][2]

\* C37: after a call of updateEffects, and after the step that follows it, a graph
\* that exists has the targets of the configuration that call was given; so it has
\* when the call came before the session and the next step creates the session.
C37_GraphFollowsLastConfig ==
    [][LET last == IF LastPassed(calls') # <<>> THEN LastPassed(calls')
                                               ELSE LastPassed(calls)
       IN  (last # <<>> /\ effectsChain'.built >= 1) =>
               Follows(effectsChain', last[1])]_vars

(***************************************************************************)
(* The notes a drag leaves (specification SpecPlace).                       *)
(***************************************************************************)
\* C38: the release of a drag that adds a sustained note, clockwise or
\* counter-clockwise and of any length, adds a note with 0 <= angle < 360 and
\* 0 < durationAngle < 360.
C38_DraggedNoteInRange ==
    [][(DragReleased /\ Len(notes') = Len(notes) + 1 /\ notes'[Len(notes')].dur > 0) =>
          LET newNote == notes'[Len(notes')]
          IN  /\ 0 <= newNote.angle /\ newNote.angle < FULL
              /\ 0 < newNote.dur /\ newNote.dur < FULL]_vars

(***************************************************************************)
(* Extending and merging notes by clicks (specification SpecSlots).         *)
(***************************************************************************)
\* The slots of its track a note covers, counted from the slot at 0 degrees.
SlotsOf(n) ==
    { ((n.angle \div SnapAngle(n.track)) + k) % (FULL \div SnapAngle(n.track)) :
          k \in 0 .. ((n.dur \div SnapAngle(n.track)) - 1) }

Cover(ns, track) == UNION { SlotsOf(ns[i]) : i \in {j \in 1 .. Len(ns) : ns[j].track = track} }

\* A click in sustain mode made some note longer.
Extended ==
    /\ isSustainMode
    /\ \E i \in 1 .. Len(notes'), j \in 1 .. Len(notes) :
          notes'[i].id = notes[j].id /\ notes'[i].dur > notes[j].dur

\* C39: a click in sustain mode that extends or merges notes leaves every note with
\* a duration that is a positive multiple of its track's grid size and at most 360
\* degrees, and the notes of each track cover the slots they covered before plus the
\* one clicked slot; so also when the note on the left and the note on the right of
\* the clicked slot are one note that wraps around the track.
C39_ExtendKeepsGrid ==
    [][Extended =>
          /\ \A i \in 1 .. Len(notes') :
                /\ notes'[i].dur > 0
                /\ notes'[i].dur % SnapAngle(notes'[i].track) = 0
                /\ notes'[i].dur <= FULL
          /\ \E track \in Tracks :
                /\ \E slot \in (0 .. ((FULL \div SnapAngle(track)) - 1)) \ Cover(notes, track) :
                      Cover(notes', track) = Cover(notes, track) \cup {slot}
                /\ \A other \in Tracks \ {track} :
                      Cover(notes', other) = Cover(notes, other)]_vars

(***************************************************************************)
(* Clicks that add and remove point notes (specification SpecTap).          *)
(***************************************************************************)
\* C40: a click on the paused disc removes the note under it or adds one at its
\* slot, on every track and at every angle: no click leaves the note list as it was,
\* so a second click where a note was just placed removes that note.  (A step is
\* seen here when the click changes the audio session as well.)
C40_ClickAddsOrRemoves ==
    [][(build = "tap" /\ ~isPlaying) => notes' # notes]_vars

====
